---- MODULE Spec2Model ----
(***************************************************************************)
(* Model of the network-manager client library: the D-Bus transport with   *)
(* its bounded retry (dbus_api.rs), the connection and device activation   *)
(* operations with their polling wait (connection.rs, device.rs), and the  *)
(* remote NetworkManager objects those operations read.                    *)
(*                                                                         *)
(* The client is single threaded.  Every bus round trip and every sleep is *)
(* one step; the remote side changes between any two steps.                *)
(***************************************************************************)
EXTENDS Integers, Sequences, FiniteSets, TLC

VARIABLES
    active,      \* remote: ActiveConnections property, a sequence of active-object ids
    astate,      \* remote: State property (wire code) of each active object
    aconn,       \* remote: Connection property of each active object ("self"/"other")
    dstate,      \* remote: State property (wire code) of the device
    aps,         \* remote: the access points of the device, in AccessPoints order
    settings,    \* remote: the ListConnections reply, path numbers in listed order
    op,          \* the public operation under execution
    pc,          \* position of the client in the code
    stack,       \* return positions of the enclosing calls
    rv,          \* value returned by the last completed call
    paths,       \* get_connection_active_path: active_paths snapshot
    idx,         \* get_connection_active_path: loop position in active_paths
    found,       \* get_state: active_path of the matched active object
    collected,   \* get_connections, get_access_points: the vector under construction
    lists,       \* history: successful reads of ActiveConnections by the operation
    target,      \* wait: target_state
    timeout,     \* wait: timeout
    total_time,  \* wait: total_time
    retries,     \* call_with_args_retry: retries
    method_timeout, \* DBusApi.method_timeout
    msg,         \* call_with_args: path, interface, method of the call
    result,      \* what the public operation returned
    inWait,      \* history: a wait is running
    reads,       \* history: state reads made by the running wait
    sleeps,      \* history: one-second sleeps made by the running wait
    gap,         \* history: sleeps since the previous state read of the wait
    gapsOk,      \* history: every state read of the wait followed exactly one sleep
    lastObs,     \* wait: state, the result of the state read of the current round
    sawTarget,   \* history: a state read of the wait returned the target
    reached,     \* history: the remote state was at the target during the wait
    everMatch,   \* history: some active object backed this connection during get_state
    sends,       \* history: messages sent by the current call
    csleeps,     \* history: sleeps made by the current call
    transients,  \* history: transient error replies received by the current call
    lastReply,   \* history: kind of the latest reply received by the current call
    calls,       \* history: method calls issued by the operation, in order
    args,        \* history: the object-path argument of each of those calls
    observed,    \* history: the state the operation matched on at entry
    waits,       \* history: number of waits entered by the operation
    lastRead,    \* history: the latest property read of the operation and its outcome
    input,       \* the argument of the function or operation under execution
    output,      \* what the function under execution has computed
    clean        \* history: since the first read of the current round of the wait the
                 \* remote state has been settled at the target and no read has failed

remoteVars == <<active, astate, aconn, dstate, aps, settings>>
lookupVars == <<paths, idx, found, lists, collected>>
waitVars   == <<target, timeout, total_time>>
waitHist   == <<inWait, reads, sleeps, gap, gapsOk, lastObs, sawTarget, waits>>
callHist   == <<retries, msg, sends, csleeps, transients, lastReply>>
vars == <<active, astate, aconn, dstate, aps, settings, op, pc, stack, rv, paths, idx,
          found, lists, collected, target, timeout, total_time, retries, method_timeout, msg, result,
          inWait, reads, sleeps, gap, gapsOk, lastObs, sawTarget, reached,
          everMatch, sends, csleeps, transients, lastReply, calls, args, observed, waits, lastRead, clean,
          input, output>>

----------------------------------------------------------------------------
(* Bounds of the model *)

MaxTimeout == 3      \* largest wait timeout (method_timeout) explored
MaxActive  == 1      \* number of active-connection objects the remote can hold
MaxAps     == 2      \* number of access points the device can list
MaxSettings == 3     \* number of connections the settings service can list
MaxBytes   == 33     \* length of the longest byte vector an Ssid is built from
MaxCmpLen  == 2      \* length of the longest text or byte vector of a compared Ssid
MaxPassword == 65    \* length of the longest password validated

ActiveIds == 1..MaxActive

----------------------------------------------------------------------------
(* Program constants *)

RETRIES_ALLOWED == 10
DEFAULT_TIMEOUT == 10

UNKNOWN_CONNECTION == "org.freedesktop.NetworkManager.UnknownConnection"
METHOD_RETRY_ERROR_NAMES == {UNKNOWN_CONNECTION}

NM_SERVICE_PATH == "/org/freedesktop/NetworkManager"
NM_SERVICE_INTERFACE == "org.freedesktop.NetworkManager"
NM_DEVICE_INTERFACE == "org.freedesktop.NetworkManager.Device"
NM_CONNECTION_INTERFACE == "org.freedesktop.NetworkManager.Settings.Connection"

\* object paths of the connection and of the device under test
ConnPath == "/org/freedesktop/NetworkManager/Settings/7"
DevPath  == "/org/freedesktop/NetworkManager/Devices/2"

\* the same two paths as arguments of a method call
ConnPathArg == <<"/org/freedesktop/NetworkManager/Settings", 7>>
DevPathArg  == <<"/org/freedesktop/NetworkManager/Devices", 2>>

----------------------------------------------------------------------------
(* Wire codes and their decoding *)

\* wire codes the remote takes in the model; 99 and 999 are codes the client does not know
ConnCodes == {0, 1, 2, 3, 4, 99}
DevCodes  == {0, 30, 40, 100, 110, 120, 999}

ConnectionStateFromChecked(code) ==
    CASE code = 0 -> "Unknown"
      [] code = 1 -> "Activating"
      [] code = 2 -> "Activated"
      [] code = 3 -> "Deactivating"
      [] code = 4 -> "Deactivated"
      [] OTHER    -> "Undefined"

ConnectionStateFrom(code) ==
    CASE code = 0 -> "Unknown"
      [] code = 1 -> "Activating"
      [] code = 2 -> "Activated"
      [] code = 3 -> "Deactivating"
      [] code = 4 -> "Deactivated"
      [] OTHER    -> "Unknown"

DeviceStateFromChecked(code) ==
    CASE code = 0   -> "Unknown"
      [] code = 10  -> "Unmanaged"
      [] code = 20  -> "Unavailable"
      [] code = 30  -> "Disconnected"
      [] code = 40  -> "Prepare"
      [] code = 50  -> "Config"
      [] code = 60  -> "NeedAuth"
      [] code = 70  -> "IpConfig"
      [] code = 80  -> "IpCheck"
      [] code = 90  -> "Secondaries"
      [] code = 100 -> "Activated"
      [] code = 110 -> "Deactivating"
      [] code = 120 -> "Failed"
      [] OTHER      -> "Undefined"

DeviceStateFrom(code) ==
    CASE code = 0   -> "Unknown"
      [] code = 10  -> "Unmanaged"
      [] code = 20  -> "Unavailable"
      [] code = 30  -> "Disconnected"
      [] code = 40  -> "Prepare"
      [] code = 50  -> "Config"
      [] code = 60  -> "NeedAuth"
      [] code = 70  -> "IpConfig"
      [] code = 80  -> "IpCheck"
      [] code = 90  -> "Secondaries"
      [] code = 100 -> "Activated"
      [] code = 110 -> "Deactivating"
      [] code = 120 -> "Failed"
      [] OTHER      -> "Unknown"


----------------------------------------------------------------------------
(* Results *)

NoCtx == [interface |-> "", method |-> "", path |-> ""]

Ok(v)  == [kind |-> "Ok", val |-> v, ctx |-> NoCtx]
Err(e) == [kind |-> "Err", val |-> e, ctx |-> NoCtx]
NoResult == [kind |-> "None", val |-> "", ctx |-> NoCtx]

PROPERTY_FAILED  == "D-Bus get property failed"
RETRIES_EXHAUSTED == "method failed after 10 retries"
REMOTE_ERROR     == "remote error"
BAD_MESSAGE      == "message construction failed"
STATE_UNKNOWN    == "Unable to get connection state"

\* dbus_api.rs call_with_args: the error of a failed call names the call
CallError(m, details) ==
    [kind |-> "Err", val |-> details,
     ctx |-> [interface |-> m.interface, method |-> m.method, path |-> m.path]]

\* object paths are a prefix and a number; NoPath stands for a call without arguments
NoPath == <<"", 0>>

\* the path of the active-connection object id
ActivePath(id) == <<"/org/freedesktop/NetworkManager/ActiveConnection", id>>

\* dbus_api.rs property: the outcome of a property read
ReadOf(property, ok) == [property |-> property, ok |-> ok]

NoRead == ReadOf("", TRUE)

NoMsg == [interface |-> "", method |-> "", path |-> "", arg |-> NoPath, valid |-> TRUE]

----------------------------------------------------------------------------
(* Sequences *)

Range(s) == {s[i] : i \in 1..Len(s)}

InsertAt(s, i, x) == SubSeq(s, 1, i - 1) \o <<x>> \o SubSeq(s, i, Len(s))

RemoveId(s, x) == SelectSeq(s, LAMBDA y : y # x)

\* byte vectors: n times the byte b
Fill(n, b) == [i \in 1..n |-> b]

----------------------------------------------------------------------------
(* The remote side as a state read would see it *)

\* the active object first in ActiveConnections order that backs this connection, 0 if none
FirstMatch(act, con) ==
    IF \E i \in 1..Len(act) : con[act[i]] = "self"
    THEN act[CHOOSE i \in 1..Len(act) :
                 /\ con[act[i]] = "self"
                 /\ \A j \in 1..(i - 1) : con[act[j]] # "self"]
    ELSE 0

\* the connection shows state tgt: an active object backing it is in that state,
\* or tgt is Deactivated and no active object backs it
RemoteConnAt(act, ast, con, tgt) ==
    \/ \E i \in 1..Len(act) : con[act[i]] = "self" /\ ConnectionStateFrom(ast[act[i]]) = tgt
    \/ tgt = "Deactivated" /\ FirstMatch(act, con) = 0

ConnOps == {"get_state", "wait", "activate", "deactivate"}
DevOps  == {"dev_wait", "dev_connect", "dev_disconnect"}
ListOps == {"get_connections", "get_active_connections", "get_access_points"}
Ops     == ConnOps \cup DevOps \cup ListOps \cup {"call"}

RemoteAt(o, act, ast, con, dst, tgt) ==
    IF o \in ConnOps THEN RemoteConnAt(act, ast, con, tgt)
    ELSE DeviceStateFrom(dst) = tgt

\* the operations that make a request and then wait for its effect
RequestOps == {"activate", "deactivate", "dev_connect", "dev_disconnect"}

\* the remote state is settled at tgt: every active object that backs the connection
\* is in that state, and one is there unless tgt is Deactivated; for a device, its
\* State is tgt
RemoteSettled(o, act, ast, con, dst, tgt) ==
    IF o \in ConnOps
    THEN /\ \A i \in 1..Len(act) :
                con[act[i]] = "self" => ConnectionStateFrom(ast[act[i]]) = tgt
         /\ tgt = "Deactivated" \/ FirstMatch(act, con) # 0
    ELSE DeviceStateFrom(dst) = tgt

\* the positions at which the client reads a property
ReadPcs == {"lk_list", "lk_scan", "gs_state", "dw_read", "dw0_read"}

\* history of the remote side, taken after every step
Hist ==
    /\ reached' = (reached \/ (inWait' /\ RemoteAt(op', active', astate', aconn', dstate', target')))
    /\ everMatch' = (everMatch \/ (op' \in {"get_state", "deactivate"}
                                    /\ FirstMatch(active', aconn') # 0))
    /\ args' = IF calls' # calls THEN Append(args, msg'.arg) ELSE args
    /\ clean' =
         IF op' \notin RequestOps \/ waits' = 0 THEN FALSE
         ELSE IF ~inWait /\ ~inWait' THEN clean
         ELSE LET settled == RemoteSettled(op', active', astate', aconn', dstate', target')
                  readStep == pc \in ReadPcs /\ (pc' # pc \/ idx' # idx)
                  firstRead == readStep /\ pc \in {"lk_list", "dw_read", "dw0_read"}
              IN  IF firstRead THEN settled /\ lastRead'.ok
                  ELSE clean /\ settled /\ (readStep => lastRead'.ok)

----------------------------------------------------------------------------
(* The remote side: NetworkManager changes its objects at any time *)

Busy == pc \notin {"idle", "done"}

\* an active-connection object appears, anywhere in the ActiveConnections list
EnvActivate(id, pos, code) ==
    /\ Busy /\ op \in ConnOps
    /\ id \notin Range(active)
    /\ pos \in 1..(Len(active) + 1)
    /\ active' = InsertAt(active, pos, id)
    /\ astate' = [astate EXCEPT ![id] = IF aconn[id] = "self" THEN code ELSE 0]
    /\ UNCHANGED <<aconn, dstate, aps, settings, op, pc, stack, rv, lookupVars, waitVars, method_timeout,
                   result, waitHist, callHist, calls>>
    /\ UNCHANGED observed
    /\ UNCHANGED lastRead
    /\ UNCHANGED <<input, output>>
    /\ Hist

\* an active-connection object goes away
EnvRemove(id) ==
    /\ Busy /\ op \in ConnOps
    /\ id \in Range(active)
    /\ active' = RemoveId(active, id)
    /\ astate' = [astate EXCEPT ![id] = 0]
    /\ UNCHANGED <<aconn, dstate, aps, settings, op, pc, stack, rv, lookupVars, waitVars, method_timeout,
                   result, waitHist, callHist, calls>>
    /\ UNCHANGED observed
    /\ UNCHANGED lastRead
    /\ UNCHANGED <<input, output>>
    /\ Hist

\* an active-connection object changes state
EnvConnState(id, code) ==
    /\ Busy /\ op \in ConnOps
    /\ id \in Range(active)
    /\ aconn[id] = "self"
    /\ code # astate[id]
    /\ astate' = [astate EXCEPT ![id] = code]
    /\ UNCHANGED <<active, aconn, dstate, aps, settings, op, pc, stack, rv, lookupVars, waitVars,
                   method_timeout, result, waitHist, callHist, calls>>
    /\ UNCHANGED observed
    /\ UNCHANGED lastRead
    /\ UNCHANGED <<input, output>>
    /\ Hist

\* the device changes state
EnvDevState(code) ==
    /\ Busy /\ op \in DevOps
    /\ code # dstate
    /\ dstate' = code
    /\ UNCHANGED <<active, astate, aconn, aps, settings, op, pc, stack, rv, lookupVars, waitVars,
                   method_timeout, result, waitHist, callHist, calls>>
    /\ UNCHANGED observed
    /\ UNCHANGED lastRead
    /\ UNCHANGED <<input, output>>
    /\ Hist

----------------------------------------------------------------------------
(* Control *)

Return(val) ==
    /\ rv' = val
    /\ pc' = Head(stack)
    /\ stack' = Tail(stack)

\* the public operation returns to its caller
TopReturn ==
    /\ pc = "top_ret"
    /\ result' = rv
    /\ pc' = "done"
    /\ UNCHANGED <<remoteVars, op, stack, rv, lookupVars, waitVars, method_timeout,
                   waitHist, callHist, calls>>
    /\ UNCHANGED observed
    /\ UNCHANGED lastRead
    /\ UNCHANGED <<input, output>>
    /\ Hist

----------------------------------------------------------------------------
(* dbus_api.rs: method calls with retry *)

\* names of the errors the remote can answer with; "unnamed" is an error without a name
ErrorNames == {UNKNOWN_CONNECTION, "org.freedesktop.DBus.Error.UnknownMethod", "unnamed"}

\* send_message_checked: is the error one of method_retry_error_names
IsRetryErrorAny(name) == TRUE

IsRetryError(name) == name \in METHOD_RETRY_ERROR_NAMES

\* call_with_args_retry: the retry bound is hit
RetriesExhaustedLate(n) == n = RETRIES_ALLOWED + 1

RetriesExhausted(n) == n = RETRIES_ALLOWED

\* entering call_with_args
EnterCall(m, ret) ==
    /\ msg' = m
    /\ retries' = 0
    /\ sends' = 0
    /\ csleeps' = 0
    /\ transients' = 0
    /\ lastReply' = ""
    /\ calls' = Append(calls, m.method)
    /\ pc' = "call_send"
    /\ stack' = <<ret>> \o stack

\* the caller has taken the result of the call: its frame is gone
LeaveCall ==
    /\ msg' = NoMsg
    /\ retries' = 0
    /\ sends' = 0
    /\ csleeps' = 0
    /\ transients' = 0
    /\ lastReply' = ""

\* create_and_send_message: the message cannot be built, nothing is sent
CallBadMessageSent ==
    /\ pc = "call_send"
    /\ ~msg.valid
    /\ sends' = sends + 1
    /\ Return(CallError(msg, BAD_MESSAGE))
    /\ UNCHANGED <<remoteVars, op, lookupVars, waitVars, method_timeout, result,
                   waitHist, retries, msg, csleeps, transients, lastReply, calls>>
    /\ UNCHANGED observed
    /\ UNCHANGED lastRead
    /\ UNCHANGED <<input, output>>
    /\ Hist

CallBadMessage ==
    /\ pc = "call_send"
    /\ ~msg.valid
    /\ Return(CallError(msg, BAD_MESSAGE))
    /\ UNCHANGED <<remoteVars, op, lookupVars, waitVars, method_timeout, result,
                   waitHist, callHist, calls>>
    /\ UNCHANGED observed
    /\ UNCHANGED lastRead
    /\ UNCHANGED <<input, output>>
    /\ Hist

\* send_message_checked: the remote replies
CallSendOk ==
    /\ pc = "call_send"
    /\ msg.valid
    /\ sends' = sends + 1
    /\ lastReply' = "reply"
    /\ Return(Ok("reply"))
    /\ UNCHANGED <<remoteVars, op, lookupVars, waitVars, method_timeout, result,
                   waitHist, retries, msg, csleeps, transients, calls>>
    /\ UNCHANGED observed
    /\ UNCHANGED lastRead
    /\ UNCHANGED <<input, output>>
    /\ Hist

\* send_message_checked: the remote answers with an error named name
CallSendError(name) ==
    /\ pc = "call_send"
    /\ msg.valid
    /\ sends' = sends + 1
    /\ lastReply' = name
    /\ transients' = IF name \in METHOD_RETRY_ERROR_NAMES THEN transients + 1 ELSE transients
    /\ IF IsRetryError(name)
       THEN /\ retries' = retries + 1
            /\ IF RetriesExhausted(retries + 1)
               THEN Return(CallError(msg, RETRIES_EXHAUSTED))
               ELSE pc' = "call_sleep" /\ UNCHANGED <<stack, rv>>
       ELSE /\ Return(CallError(msg, REMOTE_ERROR))
            /\ UNCHANGED retries
    /\ UNCHANGED <<remoteVars, op, lookupVars, waitVars, method_timeout, result,
                   waitHist, msg, csleeps, calls>>
    /\ UNCHANGED observed
    /\ UNCHANGED lastRead
    /\ UNCHANGED <<input, output>>
    /\ Hist

\* call_with_args_retry: sleep one second before the next attempt
CallSleep ==
    /\ pc = "call_sleep"
    /\ csleeps' = csleeps + 1
    /\ pc' = "call_send"
    /\ UNCHANGED <<remoteVars, op, stack, rv, lookupVars, waitVars, method_timeout,
                   result, waitHist, retries, msg, sends, transients, lastReply, calls>>
    /\ UNCHANGED observed
    /\ UNCHANGED lastRead
    /\ UNCHANGED <<input, output>>
    /\ Hist

----------------------------------------------------------------------------
(* connection.rs: the reverse lookup and the state of a connection *)

\* a property of an active object can be read only while the object exists
Exists(id) == id \in Range(active)

\* get_connection_active_path: read the ActiveConnections property
LookupList(ok) ==
    /\ pc = "lk_list"
    /\ IF ~ok
       THEN /\ Return(Err(PROPERTY_FAILED))
            /\ UNCHANGED lookupVars
       ELSE /\ lists' = lists + 1
            /\ IF active = <<>>
               THEN /\ Return(Ok("none"))
                    /\ UNCHANGED <<paths, idx, found>>
               ELSE /\ paths' = active
                    /\ idx' = 1
                    /\ pc' = "lk_scan"
                    /\ UNCHANGED <<found, stack, rv>>
    /\ UNCHANGED <<remoteVars, op, waitVars, method_timeout, result, waitHist,
                   callHist, calls>>
    /\ UNCHANGED observed
    /\ UNCHANGED collected
    /\ lastRead' = ReadOf("ActiveConnections", ok)
    /\ UNCHANGED <<input, output>>
    /\ Hist

\* get_connection_active_path: read the Connection property of active_paths[idx];
\* a path whose property cannot be read is skipped
LookupScanStrict(ok) ==
    /\ pc = "lk_scan"
    /\ LET id == paths[idx]
           readable == ok /\ Exists(id)
       IN  IF ~readable
           THEN /\ found' = 0
                /\ Return(Err(PROPERTY_FAILED))
                /\ paths' = <<>>
                /\ idx' = 0
           ELSE IF aconn[id] = "self"
           THEN /\ found' = id
                /\ Return(Ok("some"))
                /\ paths' = <<>>
                /\ idx' = 0
           ELSE IF idx = Len(paths)
                THEN /\ found' = 0
                     /\ Return(Ok("none"))
                     /\ paths' = <<>>
                     /\ idx' = 0
                ELSE /\ idx' = idx + 1
                     /\ UNCHANGED <<paths, found, pc, stack, rv>>
    /\ UNCHANGED <<remoteVars, op, lists, waitVars, method_timeout, result, waitHist,
                   callHist, calls>>
    /\ UNCHANGED observed
    /\ UNCHANGED collected
    /\ lastRead' = ReadOf("Connection", ok /\ Exists(paths[idx]))
    /\ UNCHANGED <<input, output>>
    /\ Hist

LookupScan(ok) ==
    /\ pc = "lk_scan"
    /\ LET id == paths[idx]
           readable == ok /\ Exists(id)
       IN  IF readable /\ aconn[id] = "self"
           THEN /\ found' = id
                /\ Return(Ok("some"))
                /\ paths' = <<>>
                /\ idx' = 0
           ELSE IF idx = Len(paths)
                THEN /\ found' = 0
                     /\ Return(Ok("none"))
                     /\ paths' = <<>>
                     /\ idx' = 0
                ELSE /\ idx' = idx + 1
                     /\ UNCHANGED <<paths, found, pc, stack, rv>>
    /\ UNCHANGED <<remoteVars, op, lists, waitVars, method_timeout, result, waitHist,
                   callHist, calls>>
    /\ UNCHANGED observed
    /\ UNCHANGED collected
    /\ lastRead' = ReadOf("Connection", ok /\ Exists(paths[idx]))
    /\ UNCHANGED <<input, output>>
    /\ Hist

\* Connection::get_state is entered: it starts with the reverse lookup
EnterGetState(ret) ==
    /\ pc' = "lk_list"
    /\ stack' = <<"gs_lk_ret", ret>> \o stack

\* Connection::get_state: what it makes of a lookup without a match
NoMatchStateUnknown == Ok("Unknown")

NoMatchState == Ok("Deactivated")

\* Connection::get_state: the lookup has returned
GetStateLookedUp ==
    /\ pc = "gs_lk_ret"
    /\ IF rv.kind = "Err"
       THEN Return(rv)
       ELSE IF rv.val = "none"
            THEN Return(NoMatchState)
            ELSE pc' = "gs_state" /\ rv' = NoResult /\ UNCHANGED stack
    /\ UNCHANGED <<remoteVars, op, lookupVars, waitVars, method_timeout, result,
                   waitHist, callHist, calls>>
    /\ UNCHANGED observed
    /\ UNCHANGED lastRead
    /\ UNCHANGED <<input, output>>
    /\ Hist

\* dbus_nm.rs get_connection_state: what it makes of a State property it cannot read
StateReadFailedErr == Err(PROPERTY_FAILED)

StateReadFailedDeactivated == Ok("Deactivated")

StateReadFailed == Ok("Unknown")

\* dbus_nm.rs get_connection_state: read the State property of the active object;
\* a failed read gives Unknown
GetStateRead(ok) ==
    /\ pc = "gs_state"
    /\ IF ok /\ Exists(found)
       THEN Return(Ok(ConnectionStateFrom(astate[found])))
       ELSE Return(StateReadFailed)
    /\ found' = 0
    /\ UNCHANGED <<remoteVars, op, paths, idx, lists, waitVars, method_timeout, result,
                   waitHist, callHist, calls>>
    /\ UNCHANGED observed
    /\ UNCHANGED collected
    /\ lastRead' = ReadOf("State", ok /\ Exists(found))
    /\ UNCHANGED <<input, output>>
    /\ Hist

----------------------------------------------------------------------------
(* connection.rs: wait *)

\* wait: the loop's exit test after a state read; NoResult means keep polling
ConnWaitOutcomeHardTimeout(state, tgt, total, tmo) ==
    IF state = tgt THEN Ok(state)
    ELSE IF total >= tmo THEN Err("service timed out")
    ELSE NoResult

ConnWaitOutcomeLate(state, tgt, total, tmo) ==
    IF state = tgt \/ total > tmo THEN Ok(state) ELSE NoResult

ConnWaitOutcomeDeaf(state, tgt, total, tmo) ==
    IF total >= tmo THEN Ok(state) ELSE NoResult

ConnWaitOutcome(state, tgt, total, tmo) ==
    IF state = tgt \/ total >= tmo THEN Ok(state) ELSE NoResult

\* wait: the method calls a round of the loop issues besides its state read
WaitCallsCancel(state) == IF state.kind = "Ok" THEN <<"DeactivateConnection">> ELSE <<>>

WaitCalls(state) == <<>>

\* wait with timeout 0 blocks for a second like any other wait
ZeroTimeoutSleeps(tmo) == FALSE

ZeroTimeoutReturns(tmo) == tmo = 0

\* wait is entered with a target and a timeout
EnterWaitHist(tgt, tmo) ==
    /\ target' = tgt
    /\ timeout' = tmo
    /\ total_time' = 0
    /\ inWait' = TRUE
    /\ waits' = waits + 1
    /\ UNCHANGED <<reads, sleeps, gap, gapsOk, lastObs, sawTarget>>

\* connection.rs wait: timeout == 0 reads the state at once, otherwise the loop starts
EnterConnWait(tgt, tmo) ==
    /\ EnterWaitHist(tgt, tmo)
    /\ IF ZeroTimeoutReturns(tmo)
       THEN /\ pc' = "lk_list"
            /\ stack' = <<"gs_lk_ret", "w0_gs_ret">> \o stack
       ELSE /\ pc' = "w_sleep"
            /\ UNCHANGED stack

\* history of a state read made by wait
ReadHist(r, tgt) ==
    /\ reads' = reads + 1
    /\ gapsOk' = (gapsOk /\ gap = 1)
    /\ gap' = 0
    /\ sawTarget' = (sawTarget \/ (r.kind = "Ok" /\ r.val = tgt))

\* wait, timeout == 0: return connection.get_state()
ConnWaitZeroReturn ==
    /\ pc = "w0_gs_ret"
    /\ reads' = reads + 1
    /\ lastObs' = rv
    /\ sawTarget' = (sawTarget \/ (rv.kind = "Ok" /\ rv.val = target))
    /\ inWait' = FALSE
    /\ Return(rv)
    /\ UNCHANGED <<remoteVars, op, lookupVars, waitVars, method_timeout, result,
                   sleeps, gap, gapsOk, waits, callHist, calls>>
    /\ UNCHANGED observed
    /\ UNCHANGED lastRead
    /\ UNCHANGED <<input, output>>
    /\ Hist

\* wait: thread::sleep(1s), then connection.get_state()
ConnWaitSleep ==
    /\ pc = "w_sleep"
    /\ sleeps' = sleeps + 1
    /\ gap' = gap + 1
    /\ EnterGetState("w_gs_ret")
    /\ UNCHANGED <<remoteVars, op, rv, lookupVars, waitVars, method_timeout, result,
                   inWait, reads, gapsOk, lastObs, sawTarget, waits, callHist, calls>>
    /\ UNCHANGED observed
    /\ UNCHANGED lastRead
    /\ UNCHANGED <<input, output>>
    /\ Hist

\* wait: the state read of this round has returned
ConnWaitPolled ==
    /\ pc = "w_gs_ret"
    /\ ReadHist(rv, target)
    /\ IF rv.kind = "Err"
       THEN /\ Return(rv)
            /\ lastObs' = rv
            /\ inWait' = FALSE
            /\ UNCHANGED total_time
       ELSE /\ total_time' = total_time + 1
            /\ LET out == ConnWaitOutcome(rv.val, target, total_time + 1, timeout)
               IN  IF out = NoResult
                   THEN /\ pc' = "w_sleep"
                        /\ rv' = NoResult /\ lastObs' = NoResult /\ UNCHANGED <<stack, inWait>>
                   ELSE /\ Return(out)
                        /\ lastObs' = rv
                        /\ inWait' = FALSE
    /\ calls' = calls \o WaitCalls(rv)
    /\ UNCHANGED <<remoteVars, op, lookupVars, target, timeout, method_timeout, result,
                   sleeps, waits, callHist>>
    /\ UNCHANGED observed
    /\ UNCHANGED lastRead
    /\ UNCHANGED <<input, output>>
    /\ Hist

----------------------------------------------------------------------------
(* connection.rs: activate and deactivate *)

\* dbus_nm.rs activate_connection(path): the settings path is the first argument
ActivateMsg ==
    [interface |-> NM_SERVICE_INTERFACE, method |-> "ActivateConnection",
     path |-> NM_SERVICE_PATH, arg |-> ConnPathArg, valid |-> TRUE]

\* dbus_nm.rs deactivate_connection(path), called with the active path of the lookup
DeactivateMsgSettings(active_path) ==
    [interface |-> NM_SERVICE_INTERFACE, method |-> "DeactivateConnection",
     path |-> NM_SERVICE_PATH, arg |-> ConnPathArg, valid |-> TRUE]

DeactivateMsg(active_path) ==
    [interface |-> NM_SERVICE_INTERFACE, method |-> "DeactivateConnection",
     path |-> NM_SERVICE_PATH, arg |-> active_path, valid |-> TRUE]

\* Connection::activate: the match on the observed state
ActivateBranchEager(state) ==
    CASE state = "Activated"  -> "call"
      [] state = "Activating" -> "wait"
      [] state = "Unknown"    -> "error"
      [] OTHER                -> "call"

ActivateBranchRecall(state) ==
    CASE state = "Activated"  -> "return"
      [] state = "Activating" -> "call"
      [] state = "Unknown"    -> "error"
      [] OTHER                -> "call"

ActivateBranchSkip(state) ==
    CASE state = "Activated"  -> "return"
      [] state = "Activating" -> "wait"
      [] state = "Unknown"    -> "error"
      [] OTHER                -> "wait"

ActivateBranch(state) ==
    CASE state = "Activated"  -> "return"
      [] state = "Activating" -> "wait"
      [] state = "Unknown"    -> "error"
      [] OTHER                -> "call"

\* Connection::deactivate: the match on the observed state
DeactivateBranchNoError(state) ==
    CASE state = "Deactivated"  -> "return"
      [] state = "Deactivating" -> "wait"
      [] OTHER                  -> "call"

DeactivateBranch(state) ==
    CASE state = "Deactivated"  -> "return"
      [] state = "Deactivating" -> "wait"
      [] state = "Unknown"      -> "error"
      [] OTHER                  -> "call"

\* Connection::activate: get_state has returned
ActivateGotState ==
    /\ pc = "ac_gs_ret"
    /\ IF rv.kind = "Err"
       THEN /\ Return(rv)
            /\ UNCHANGED <<waitVars, waitHist, callHist, calls>>
       ELSE LET b == ActivateBranch(rv.val)
            IN  CASE b = "return" -> /\ Return(Ok("Activated"))
                                     /\ UNCHANGED <<waitVars, waitHist, callHist, calls>>
                  [] b = "wait"   -> /\ EnterConnWait("Activated", method_timeout)
                                     /\ rv' = NoResult /\ UNCHANGED <<callHist, calls>>
                  [] b = "error"  -> /\ Return(Err(STATE_UNKNOWN))
                                     /\ UNCHANGED <<waitVars, waitHist, callHist, calls>>
                  [] OTHER        -> /\ EnterCall(ActivateMsg, "ac_call_ret")
                                     /\ rv' = NoResult /\ UNCHANGED <<waitVars, waitHist>>
    /\ UNCHANGED <<remoteVars, op, lookupVars, method_timeout, result>>
    /\ observed' = IF rv.kind = "Ok" THEN rv.val ELSE observed
    /\ UNCHANGED lastRead
    /\ UNCHANGED <<input, output>>
    /\ Hist

\* Connection::activate: activate_connection has returned
ActivateCalled ==
    /\ pc = "ac_call_ret"
    /\ LeaveCall
    /\ IF rv.kind = "Err"
       THEN /\ Return(rv)
            /\ UNCHANGED <<waitVars, waitHist>>
       ELSE /\ EnterConnWait("Activated", method_timeout)
            /\ rv' = NoResult
    /\ UNCHANGED <<remoteVars, op, lookupVars, method_timeout, result, calls>>
    /\ UNCHANGED observed
    /\ UNCHANGED lastRead
    /\ UNCHANGED <<input, output>>
    /\ Hist

\* Connection::deactivate: get_state has returned
DeactivateGotState ==
    /\ pc = "de_gs_ret"
    /\ IF rv.kind = "Err"
       THEN /\ Return(rv)
            /\ UNCHANGED <<waitVars, waitHist>>
       ELSE LET b == DeactivateBranch(rv.val)
            IN  CASE b = "return" -> /\ Return(Ok("Deactivated"))
                                     /\ UNCHANGED <<waitVars, waitHist>>
                  [] b = "wait"   -> /\ EnterConnWait("Deactivated", method_timeout)
                                     /\ rv' = NoResult
                  [] b = "error"  -> /\ Return(Err(STATE_UNKNOWN))
                                     /\ UNCHANGED <<waitVars, waitHist>>
                  [] OTHER        -> /\ pc' = "lk_list"
                                     /\ stack' = <<"de_lk_ret">> \o stack
                                     /\ rv' = NoResult /\ UNCHANGED <<waitVars, waitHist>>
    /\ UNCHANGED <<remoteVars, op, lookupVars, method_timeout, result, callHist, calls>>
    /\ observed' = IF rv.kind = "Ok" THEN rv.val ELSE observed
    /\ UNCHANGED lastRead
    /\ UNCHANGED <<input, output>>
    /\ Hist

\* Connection::deactivate: `if let Some(active_path)` on the second reverse lookup
DeactivateSecondBlind(lookup) == "call"

DeactivateSecond(lookup) == IF lookup = "none" THEN "return" ELSE "call"

\* Connection::deactivate: the second reverse lookup has returned
DeactivateLookedUp ==
    /\ pc = "de_lk_ret"
    /\ IF rv.kind = "Err"
       THEN /\ Return(rv)
            /\ UNCHANGED <<callHist, calls>>
       ELSE IF DeactivateSecond(rv.val) = "return"
            THEN /\ Return(Ok("Deactivated"))
                 /\ UNCHANGED <<callHist, calls>>
            ELSE /\ EnterCall(DeactivateMsg(ActivePath(found)), "de_call_ret")
                 /\ rv' = NoResult
    /\ UNCHANGED <<remoteVars, op, lookupVars, waitVars, method_timeout, result, waitHist>>
    /\ UNCHANGED observed
    /\ UNCHANGED lastRead
    /\ UNCHANGED <<input, output>>
    /\ Hist

\* Connection::deactivate: deactivate_connection has returned
DeactivateCalled ==
    /\ pc = "de_call_ret"
    /\ LeaveCall
    /\ IF rv.kind = "Err"
       THEN /\ Return(rv)
            /\ UNCHANGED <<waitVars, waitHist>>
       ELSE /\ EnterConnWait("Deactivated", method_timeout)
            /\ rv' = NoResult
    /\ UNCHANGED <<remoteVars, op, lookupVars, method_timeout, result, calls>>
    /\ UNCHANGED observed
    /\ UNCHANGED lastRead
    /\ UNCHANGED <<input, output>>
    /\ Hist

----------------------------------------------------------------------------
(* device.rs: state, wait, connect and disconnect *)

\* dbus_nm.rs connect_device(path): the device path is the object-path argument
DevActivateMsg ==
    [interface |-> NM_SERVICE_INTERFACE, method |-> "ActivateConnection",
     path |-> NM_SERVICE_PATH, arg |-> DevPathArg, valid |-> TRUE]

DevDisconnectMsg ==
    [interface |-> NM_DEVICE_INTERFACE, method |-> "Disconnect",
     path |-> DevPath, arg |-> NoPath, valid |-> TRUE]

\* Device::get_state: read the State property of the device
DeviceGetState(ok) == IF ok THEN Ok(DeviceStateFrom(dstate)) ELSE Err(PROPERTY_FAILED)

\* device.rs wait: the loop's exit test after a state read; NoResult means keep polling
DevWaitOutcome(state, tgt, total, tmo) ==
    IF state = tgt THEN Ok(state)
    ELSE IF total >= tmo THEN Ok(state)
    ELSE NoResult

\* device.rs wait: timeout == 0 reads the state at once, otherwise the loop starts
EnterDevWait(tgt, tmo) ==
    /\ EnterWaitHist(tgt, tmo)
    /\ pc' = IF tmo = 0 THEN "dw0_read" ELSE "dw_sleep"
    /\ UNCHANGED stack

\* wait, timeout == 0: return device.get_state()
DevWaitZeroRead(ok) ==
    /\ pc = "dw0_read"
    /\ reads' = reads + 1
    /\ lastObs' = DeviceGetState(ok)
    /\ sawTarget' = (sawTarget \/ (ok /\ DeviceStateFrom(dstate) = target))
    /\ inWait' = FALSE
    /\ Return(DeviceGetState(ok))
    /\ UNCHANGED <<remoteVars, op, lookupVars, waitVars, method_timeout, result,
                   sleeps, gap, gapsOk, waits, callHist, calls>>
    /\ UNCHANGED observed
    /\ lastRead' = ReadOf("State", ok)
    /\ UNCHANGED <<input, output>>
    /\ Hist

\* wait: thread::sleep(1s)
DevWaitSleep ==
    /\ pc = "dw_sleep"
    /\ sleeps' = sleeps + 1
    /\ gap' = gap + 1
    /\ pc' = "dw_read"
    /\ UNCHANGED <<remoteVars, op, stack, rv, lookupVars, waitVars, method_timeout,
                   result, inWait, reads, gapsOk, lastObs, sawTarget, waits, callHist,
                   calls>>
    /\ UNCHANGED observed
    /\ UNCHANGED lastRead
    /\ UNCHANGED <<input, output>>
    /\ Hist

\* wait: device.get_state() and the exit test
DevWaitPoll(ok) ==
    /\ pc = "dw_read"
    /\ ReadHist(DeviceGetState(ok), target)
    /\ IF ~ok
       THEN /\ Return(DeviceGetState(ok))
            /\ lastObs' = DeviceGetState(ok)
            /\ inWait' = FALSE
            /\ UNCHANGED total_time
       ELSE /\ total_time' = total_time + 1
            /\ LET out == DevWaitOutcome(DeviceStateFrom(dstate), target,
                                         total_time + 1, timeout)
               IN  IF out = NoResult
                   THEN /\ pc' = "dw_sleep"
                        /\ lastObs' = NoResult /\ UNCHANGED <<stack, rv, inWait>>
                   ELSE /\ Return(out)
                        /\ lastObs' = DeviceGetState(ok)
                        /\ inWait' = FALSE
    /\ calls' = calls \o WaitCalls(DeviceGetState(ok))
    /\ UNCHANGED <<remoteVars, op, lookupVars, target, timeout, method_timeout, result,
                   sleeps, waits, callHist>>
    /\ UNCHANGED observed
    /\ lastRead' = ReadOf("State", ok)
    /\ UNCHANGED <<input, output>>
    /\ Hist

\* Device::connect: the match on the observed state
DevConnectBranchLazy(state) == IF state \in {"Activated", "Prepare"} THEN "return" ELSE "call"

DevConnectBranch(state) == IF state = "Activated" THEN "return" ELSE "call"

\* Device::disconnect: the match on the observed state
DevDisconnectBranch(state) == IF state = "Disconnected" THEN "return" ELSE "call"

\* Device::connect: get_state, then the match
DevConnectRead(ok) ==
    /\ pc = "dc_read"
    /\ IF ~ok
       THEN /\ Return(DeviceGetState(ok))
            /\ UNCHANGED <<callHist, calls>>
       ELSE IF DevConnectBranch(DeviceStateFrom(dstate)) = "return"
            THEN /\ Return(Ok("Activated"))
                 /\ UNCHANGED <<callHist, calls>>
            ELSE /\ EnterCall(DevActivateMsg, "dc_call_ret")
                 /\ rv' = NoResult
    /\ UNCHANGED <<remoteVars, op, lookupVars, waitVars, method_timeout, result, waitHist>>
    /\ observed' = IF ok THEN DeviceStateFrom(dstate) ELSE observed
    /\ lastRead' = ReadOf("State", ok)
    /\ UNCHANGED <<input, output>>
    /\ Hist

\* Device::connect: connect_device has returned
DevConnectCalled ==
    /\ pc = "dc_call_ret"
    /\ LeaveCall
    /\ IF rv.kind = "Err"
       THEN /\ Return(rv)
            /\ UNCHANGED <<waitVars, waitHist>>
       ELSE /\ EnterDevWait("Activated", method_timeout)
            /\ rv' = NoResult
    /\ UNCHANGED <<remoteVars, op, lookupVars, method_timeout, result, calls>>
    /\ UNCHANGED observed
    /\ UNCHANGED lastRead
    /\ UNCHANGED <<input, output>>
    /\ Hist

\* Device::disconnect: get_state, then the match
DevDisconnectRead(ok) ==
    /\ pc = "dd_read"
    /\ IF ~ok
       THEN /\ Return(DeviceGetState(ok))
            /\ UNCHANGED <<callHist, calls>>
       ELSE IF DevDisconnectBranch(DeviceStateFrom(dstate)) = "return"
            THEN /\ Return(Ok("Disconnected"))
                 /\ UNCHANGED <<callHist, calls>>
            ELSE /\ EnterCall(DevDisconnectMsg, "dd_call_ret")
                 /\ rv' = NoResult
    /\ UNCHANGED <<remoteVars, op, lookupVars, waitVars, method_timeout, result, waitHist>>
    /\ observed' = IF ok THEN DeviceStateFrom(dstate) ELSE observed
    /\ lastRead' = ReadOf("State", ok)
    /\ UNCHANGED <<input, output>>
    /\ Hist

\* Device::disconnect: disconnect_device has returned
DevDisconnectCalled ==
    /\ pc = "dd_call_ret"
    /\ LeaveCall
    /\ IF rv.kind = "Err"
       THEN /\ Return(rv)
            /\ UNCHANGED <<waitVars, waitHist>>
       ELSE /\ EnterDevWait("Disconnected", method_timeout)
            /\ rv' = NoResult
    /\ UNCHANGED <<remoteVars, op, lookupVars, method_timeout, result, calls>>
    /\ UNCHANGED observed
    /\ UNCHANGED lastRead
    /\ UNCHANGED <<input, output>>
    /\ Hist

----------------------------------------------------------------------------
(* ssid.rs: Ssid *)

SSID_MAX_LEN == 32

\* as_ssid_slice for [u8]: a slice of more than 32 bytes is refused, a shorter one
\* is taken as it is
as_ssid_sliceStrict(bytes) ==
    IF Len(bytes) >= SSID_MAX_LEN
    THEN [kind |-> "Err", error |-> "SSID", len |-> Len(bytes)]
    ELSE [kind |-> "Ok", slice |-> bytes]

as_ssid_slice(bytes) ==
    IF Len(bytes) > SSID_MAX_LEN
    THEN [kind |-> "Err", error |-> "SSID", len |-> Len(bytes)]
    ELSE [kind |-> "Ok", slice |-> bytes]

\* Ssid::from_bytes: the vector becomes the Ssid if as_ssid_slice accepts it
from_bytes(bytes) ==
    IF as_ssid_slice(bytes).kind = "Ok"
    THEN [kind |-> "Ok", vec |-> bytes]
    ELSE as_ssid_slice(bytes)

\* SsidSlice::as_bytes of an Ssid
as_bytes(ssid) == ssid.vec

----------------------------------------------------------------------------
(* wifi.rs: access-point flags and the security derived from them *)

\* a flags value is the set of the bits that are set in the u32 on the wire
AP_FLAGS_PRIVACY == 1
NM80211ApFlags == {1, 2, 4, 8}

AP_SEC_KEY_MGMT_PSK == 256
AP_SEC_KEY_MGMT_802_1X == 512
NM80211ApSecurityFlags == {1, 2, 4, 8, 16, 32, 64, 128, 256, 512}

\* bitflags from_bits: a value with a bit outside the defined ones does not decode
from_bits_truncate(value, defined) == TRUE

from_bits(value, defined) == value \subseteq defined

\* get_access_point_security: Security as the set of its flags, NONE being no flag
get_access_point_securityPrivacyIsWep(flags, wpa_flags, rsn_flags) ==
    (IF AP_FLAGS_PRIVACY \in flags THEN {"WEP"} ELSE {})
    \cup (IF wpa_flags # {} THEN {"WPA"} ELSE {})
    \cup (IF rsn_flags # {} THEN {"WPA2"} ELSE {})
    \cup (IF AP_SEC_KEY_MGMT_802_1X \in wpa_flags \/ AP_SEC_KEY_MGMT_802_1X \in rsn_flags
          THEN {"ENTERPRISE"} ELSE {})

get_access_point_securityWepIgnoresRsn(flags, wpa_flags, rsn_flags) ==
    (IF AP_FLAGS_PRIVACY \in flags /\ wpa_flags = {}
     THEN {"WEP"} ELSE {})
    \cup (IF wpa_flags # {} THEN {"WPA"} ELSE {})
    \cup (IF rsn_flags # {} THEN {"WPA2"} ELSE {})
    \cup (IF AP_SEC_KEY_MGMT_802_1X \in wpa_flags \/ AP_SEC_KEY_MGMT_802_1X \in rsn_flags
          THEN {"ENTERPRISE"} ELSE {})

get_access_point_securityWpaIsPsk(flags, wpa_flags, rsn_flags) ==
    (IF AP_FLAGS_PRIVACY \in flags /\ wpa_flags = {} /\ rsn_flags = {}
     THEN {"WEP"} ELSE {})
    \cup (IF AP_SEC_KEY_MGMT_PSK \in wpa_flags THEN {"WPA"} ELSE {})
    \cup (IF AP_SEC_KEY_MGMT_PSK \in rsn_flags THEN {"WPA2"} ELSE {})
    \cup (IF AP_SEC_KEY_MGMT_802_1X \in wpa_flags \/ AP_SEC_KEY_MGMT_802_1X \in rsn_flags
          THEN {"ENTERPRISE"} ELSE {})

get_access_point_security(flags, wpa_flags, rsn_flags) ==
    (IF AP_FLAGS_PRIVACY \in flags /\ wpa_flags = {} /\ rsn_flags = {}
     THEN {"WEP"} ELSE {})
    \cup (IF wpa_flags # {} THEN {"WPA"} ELSE {})
    \cup (IF rsn_flags # {} THEN {"WPA2"} ELSE {})
    \cup (IF AP_SEC_KEY_MGMT_802_1X \in wpa_flags \/ AP_SEC_KEY_MGMT_802_1X \in rsn_flags
          THEN {"ENTERPRISE"} ELSE {})

----------------------------------------------------------------------------
(* Sorting *)

Reverse(s) == [i \in 1..Len(s) |-> s[Len(s) + 1 - i]]

\* the order a stable sort puts the positions of keys in
SortOrder(keys) ==
    CHOOSE p \in [1..Len(keys) -> 1..Len(keys)] :
        /\ \A i, j \in 1..Len(keys) : i # j => p[i] # p[j]
        /\ \A i, j \in 1..Len(keys) :
               i < j => \/ keys[p[i]] < keys[p[j]]
                        \/ (keys[p[i]] = keys[p[j]] /\ p[i] < p[j])

\* the decimal digits of the number that ends a settings path: path n of the
\* model stands for the text ".../Settings/" followed by these digits
RECURSIVE LastSegment(_)
LastSegment(n) == IF n < 10 THEN <<n>> ELSE Append(LastSegment(n \div 10), n % 10)

\* str::parse::<i32> on a sequence of decimal digits
RECURSIVE parse_i32(_)
parse_i32(digits) ==
    IF digits = <<>> THEN 0
    ELSE 10 * parse_i32(SubSeq(digits, 1, Len(digits) - 1)) + digits[Len(digits)]

\* i32::from(&Connection): the last segment of the path, parsed
ConnectionNumberLexical(path) ==
    LET d == LastSegment(path)
    IN  (IF Len(d) >= 1 THEN 121 * (d[1] + 1) ELSE 0)
        + (IF Len(d) >= 2 THEN 11 * (d[2] + 1) ELSE 0)
        + (IF Len(d) >= 3 THEN d[3] + 1 ELSE 0)

ConnectionNumber(path) == parse_i32(LastSegment(path))

\* connections.sort(): Ord for Connection compares the numbers that end the paths
SortConnections(s) ==
    [i \in 1..Len(s) |-> s[SortOrder([k \in 1..Len(s) |-> ConnectionNumber(s[k])])[i]]]

\* access_points.sort_by_key(|ap| ap.strength)
SortByStrengthListed(s) == s

SortByStrength(s) ==
    [i \in 1..Len(s) |-> s[SortOrder([k \in 1..Len(s) |-> s[k].strength])[i]]]

----------------------------------------------------------------------------
(* connection.rs: get_connections and get_active_connections *)

NM_SETTINGS_PATH == "/org/freedesktop/NetworkManager/Settings"
NM_SETTINGS_INTERFACE == "org.freedesktop.NetworkManager.Settings"

WRONG_RESPONSE == "D-Bus wrong response type"
WRONG_TYPE     == "wrong property type"

\* the number that ends the settings path of the connection an active object backs
OtherNum == 3
SettingsNum(backing) == IF backing = "self" THEN ConnPathArg[2] ELSE OtherNum

\* the settings paths of the model
SettingsPath(n) ==
    CASE n = 7   -> ConnPath
      [] n = 3   -> "/org/freedesktop/NetworkManager/Settings/3"
      [] n = 42  -> "/org/freedesktop/NetworkManager/Settings/42"
      [] OTHER   -> "/org/freedesktop/NetworkManager/Settings/100"

ListConnectionsMsg ==
    [interface |-> NM_SETTINGS_INTERFACE, method |-> "ListConnections",
     path |-> NM_SETTINGS_PATH, arg |-> NoPath, valid |-> TRUE]

\* dbus_nm.rs get_connection_settings(path)
GetSettingsMsg(n) ==
    [interface |-> NM_CONNECTION_INTERFACE, method |-> "GetSettings",
     path |-> SettingsPath(n), arg |-> NoPath, valid |-> TRUE]

\* the settings path Connection::init is called with: the listed path, or the
\* Connection property of the active path
InitPath ==
    IF pc \in {"gc_init", "gc_init_ret"} THEN paths[idx]
    ELSE SettingsNum(aconn[paths[idx]])

\* the loop over the paths goes to its next round, or the sorted vector is returned
NextPath(loop, vec) ==
    IF idx = Len(paths)
    THEN /\ collected' = SortConnections(vec)
         /\ Return(Ok("list"))
         /\ paths' = <<>>
         /\ idx' = 0
    ELSE /\ collected' = vec
         /\ idx' = idx + 1
         /\ pc' = loop
         /\ rv' = NoResult
         /\ UNCHANGED <<paths, stack>>

\* get_connections: list_connections has returned; decoded says whether the reply
\* has the shape of an array of paths
GetConnectionsListed(decoded) ==
    /\ pc = "gc_list_ret"
    /\ LeaveCall
    /\ IF rv.kind = "Err"
       THEN Return(rv) /\ UNCHANGED <<paths, idx, collected>>
       ELSE IF ~decoded
            THEN Return(Err(WRONG_RESPONSE)) /\ UNCHANGED <<paths, idx, collected>>
            ELSE IF settings = <<>>
                 THEN Return(Ok("list")) /\ UNCHANGED <<paths, idx, collected>>
                 ELSE /\ paths' = settings
                      /\ idx' = 1
                      /\ pc' = "gc_init"
                      /\ rv' = NoResult
                      /\ UNCHANGED <<stack, collected>>
    /\ UNCHANGED <<remoteVars, op, found, lists, waitVars, method_timeout, result,
                   waitHist, calls>>
    /\ UNCHANGED observed
    /\ UNCHANGED lastRead
    /\ UNCHANGED <<input, output>>
    /\ Hist

\* Connection::init: get_connection_settings of paths[idx]
ConnectionInit ==
    /\ pc \in {"gc_init", "gac_init"}
    /\ EnterCall(GetSettingsMsg(InitPath),
                 IF pc = "gc_init" THEN "gc_init_ret" ELSE "gac_init_ret")
    /\ UNCHANGED <<remoteVars, op, rv, lookupVars, waitVars, method_timeout, result,
                   waitHist>>
    /\ UNCHANGED observed
    /\ UNCHANGED lastRead
    /\ UNCHANGED <<input, output>>
    /\ Hist

\* Connection::init has returned; decoded says whether the settings could be
\* extracted from the reply
ConnectionInitDone(decoded) ==
    /\ pc \in {"gc_init_ret", "gac_init_ret"}
    /\ LeaveCall
    /\ IF rv.kind = "Err"
       THEN Return(rv) /\ UNCHANGED <<paths, idx, collected>>
       ELSE IF ~decoded
            THEN Return(Err(WRONG_RESPONSE)) /\ UNCHANGED <<paths, idx, collected>>
            ELSE NextPath(IF pc = "gc_init_ret" THEN "gc_init" ELSE "gac_conn",
                          Append(collected, InitPath))
    /\ UNCHANGED <<remoteVars, op, found, lists, waitVars, method_timeout, result,
                   waitHist, calls>>
    /\ UNCHANGED observed
    /\ UNCHANGED lastRead
    /\ UNCHANGED <<input, output>>
    /\ Hist

\* get_active_connections: read the ActiveConnections property
GetActiveList(ok) ==
    /\ pc = "gac_list"
    /\ IF ~ok
       THEN Return(Err(PROPERTY_FAILED)) /\ UNCHANGED lookupVars
       ELSE /\ lists' = lists + 1
            /\ IF active = <<>>
               THEN Return(Ok("list")) /\ UNCHANGED <<paths, idx, found, collected>>
               ELSE /\ paths' = active
                    /\ idx' = 1
                    /\ pc' = "gac_conn"
                    /\ UNCHANGED <<found, collected, stack, rv>>
    /\ UNCHANGED <<remoteVars, op, waitVars, method_timeout, result, waitHist,
                   callHist, calls>>
    /\ UNCHANGED observed
    /\ lastRead' = ReadOf("ActiveConnections", ok)
    /\ UNCHANGED <<input, output>>
    /\ Hist

\* get_active_connections: read the Connection property of active_paths[idx]; an
\* active path whose property cannot be read is left out
GetActiveConn(ok) ==
    /\ pc = "gac_conn"
    /\ IF ok
       THEN /\ pc' = "gac_init"
            /\ UNCHANGED <<paths, idx, collected, stack, rv>>
       ELSE NextPath("gac_conn", collected)
    /\ UNCHANGED <<remoteVars, op, found, lists, waitVars, method_timeout, result,
                   waitHist, callHist, calls>>
    /\ UNCHANGED observed
    /\ lastRead' = ReadOf("Connection", ok)
    /\ UNCHANGED <<input, output>>
    /\ Hist

----------------------------------------------------------------------------
(* wifi.rs: get_access_points *)

\* an access point of the result
AccessPoint(n) ==
    [path |-> n, ssid |-> from_bytes(aps[n].ssid), strength |-> aps[n].strength,
     security |-> get_access_point_security(aps[n].flags, aps[n].wpa_flags,
                                            aps[n].rsn_flags)]

\* the loop over the access-point paths goes to its next round, or the vector is
\* sorted by strength, reversed and returned
NextAccessPoint(vec) ==
    IF idx = Len(paths)
    THEN /\ collected' = Reverse(SortByStrength(vec))
         /\ Return(Ok("list"))
         /\ paths' = <<>>
         /\ idx' = 0
    ELSE /\ collected' = vec
         /\ idx' = idx + 1
         /\ pc' = "gap_ssid"
         /\ UNCHANGED <<paths, stack, rv>>

\* get_access_points: read the AccessPoints property of the device
ScanList(ok) ==
    /\ pc = "gap_list"
    /\ IF ~ok
       THEN Return(Err(PROPERTY_FAILED)) /\ UNCHANGED <<paths, idx>>
       ELSE IF aps = <<>>
            THEN Return(Ok("list")) /\ UNCHANGED <<paths, idx>>
            ELSE /\ paths' = [i \in 1..Len(aps) |-> i]
                 /\ idx' = 1
                 /\ pc' = "gap_ssid"
                 /\ UNCHANGED <<stack, rv>>
    /\ UNCHANGED <<remoteVars, op, found, lists, collected, waitVars, method_timeout,
                   result, waitHist, callHist, calls>>
    /\ UNCHANGED observed
    /\ lastRead' = ReadOf("AccessPoints", ok)
    /\ UNCHANGED <<input, output>>
    /\ Hist

\* get_access_point: read the Ssid property; an access point whose Ssid cannot be
\* read, or is not a valid Ssid, is left out
ScanSsidStrict(ok) ==
    /\ pc = "gap_ssid"
    /\ IF ~ok
       THEN Return(Err(PROPERTY_FAILED)) /\ UNCHANGED <<paths, idx, collected>>
       ELSE IF from_bytes(aps[paths[idx]].ssid).kind = "Ok"
            THEN pc' = "gap_strength" /\ UNCHANGED <<paths, idx, collected, stack, rv>>
            ELSE NextAccessPoint(collected)
    /\ UNCHANGED <<remoteVars, op, found, lists, waitVars, method_timeout, result,
                   waitHist, callHist, calls>>
    /\ UNCHANGED observed
    /\ lastRead' = ReadOf("Ssid", ok)
    /\ UNCHANGED <<input, output>>
    /\ Hist

ScanSsid(ok) ==
    /\ pc = "gap_ssid"
    /\ IF ok /\ from_bytes(aps[paths[idx]].ssid).kind = "Ok"
       THEN pc' = "gap_strength" /\ UNCHANGED <<paths, idx, collected, stack, rv>>
       ELSE NextAccessPoint(collected)
    /\ UNCHANGED <<remoteVars, op, found, lists, waitVars, method_timeout, result,
                   waitHist, callHist, calls>>
    /\ UNCHANGED observed
    /\ lastRead' = ReadOf("Ssid", ok)
    /\ UNCHANGED <<input, output>>
    /\ Hist

\* get_access_point: read Strength, then Flags and WpaFlags; a flags value decodes
\* only if from_bits accepts it
ScanRead(ok) ==
    /\ pc \in {"gap_strength", "gap_flags", "gap_wpa"}
    /\ LET ap == aps[paths[idx]]
           good == CASE pc = "gap_strength" -> ok
                     [] pc = "gap_flags" -> ok /\ from_bits(ap.flags, NM80211ApFlags)
                     [] OTHER -> ok /\ from_bits(ap.wpa_flags, NM80211ApSecurityFlags)
       IN  /\ IF good
              THEN /\ pc' = CASE pc = "gap_strength" -> "gap_flags"
                              [] pc = "gap_flags" -> "gap_wpa"
                              [] OTHER -> "gap_rsn"
                   /\ UNCHANGED <<stack, rv>>
              ELSE Return(Err(IF ok THEN WRONG_TYPE ELSE PROPERTY_FAILED))
           /\ lastRead' = ReadOf(CASE pc = "gap_strength" -> "Strength"
                                   [] pc = "gap_flags" -> "Flags"
                                   [] OTHER -> "WpaFlags", good)
    /\ UNCHANGED <<remoteVars, op, lookupVars, waitVars, method_timeout, result,
                   waitHist, callHist, calls>>
    /\ UNCHANGED observed
    /\ UNCHANGED <<input, output>>
    /\ Hist

\* get_access_point: read RsnFlags, derive the security and push the access point
ScanRsn(ok) ==
    /\ pc = "gap_rsn"
    /\ LET good == ok /\ from_bits(aps[paths[idx]].rsn_flags, NM80211ApSecurityFlags)
       IN  /\ IF good
              THEN NextAccessPoint(Append(collected, AccessPoint(paths[idx])))
              ELSE /\ Return(Err(IF ok THEN WRONG_TYPE ELSE PROPERTY_FAILED))
                   /\ UNCHANGED <<paths, idx, collected>>
           /\ lastRead' = ReadOf("RsnFlags", good)
    /\ UNCHANGED <<remoteVars, op, found, lists, waitVars, method_timeout, result,
                   waitHist, callHist, calls>>
    /\ UNCHANGED observed
    /\ UNCHANGED <<input, output>>
    /\ Hist

----------------------------------------------------------------------------
(* The operations a caller can start, and their inputs *)

ConnTargets == {"Activated", "Deactivated"}
DevTargets  == {"Activated", "Disconnected"}

\* messages of the plain method calls: a well-formed object path and a malformed one
CallMsgs ==
    {[interface |-> NM_CONNECTION_INTERFACE, method |-> "Delete", path |-> ConnPath,
      arg |-> NoPath, valid |-> TRUE],
     [interface |-> NM_CONNECTION_INTERFACE, method |-> "Delete", path |-> "not a path",
      arg |-> NoPath, valid |-> FALSE]}

\* duplicate-free sequences over the active-object ids
ActiveLists == {q \in UNION {[1..n -> ActiveIds] : n \in 0..MaxActive} :
                   \A i, j \in 1..Len(q) : i # j => q[i] # q[j]}

\* the objects 1..n back this connection, the others back another one
BackingMaps == {[i \in ActiveIds |-> IF i <= n THEN "self" ELSE "other"] : n \in 0..MaxActive}

\* the access points a device lists: a valid and a too long Ssid, two strengths,
\* an open, a WPA2 and a badly flagged access point
ApSamples ==
    {[ssid |-> b, strength |-> st, flags |-> f[1], wpa_flags |-> f[2], rsn_flags |-> f[3]] :
        b \in {<<104, 105>>, Fill(SSID_MAX_LEN + 1, 97)},
        st \in {20, 60},
        f \in {<<{}, {}, {}>>, <<{AP_FLAGS_PRIVACY}, {}, {AP_SEC_KEY_MGMT_PSK}>>,
               <<{16}, {}, {}>>}}

ApLists == UNION {[1..n -> ApSamples] : n \in 0..MaxAps}

\* the replies of ListConnections: duplicate-free sequences of path numbers
SettingsLists ==
    {q \in UNION {[1..n -> {7, 42, 100}] : n \in 0..MaxSettings} :
        \A i, j \in 1..Len(q) : i # j => q[i] # q[j]}

Invoke ==
    /\ pc = "idle"
    /\ CASE op = "call" ->
              /\ EnterCall(msg, "top_ret")
              /\ UNCHANGED <<rv, waitVars, waitHist>>
         [] op = "get_state" ->
              /\ EnterGetState("top_ret")
              /\ UNCHANGED <<rv, waitVars, waitHist, callHist, calls>>
         [] op = "wait" ->
              /\ EnterConnWait(target, method_timeout)
              /\ UNCHANGED <<rv, callHist, calls>>
         [] op = "activate" ->
              /\ EnterGetState("ac_gs_ret")
              /\ UNCHANGED <<rv, waitVars, waitHist, callHist, calls>>
         [] op = "deactivate" ->
              /\ EnterGetState("de_gs_ret")
              /\ UNCHANGED <<rv, waitVars, waitHist, callHist, calls>>
         [] op = "dev_wait" ->
              /\ EnterDevWait(target, method_timeout)
              /\ UNCHANGED <<rv, callHist, calls>>
         [] op = "dev_connect" ->
              /\ pc' = "dc_read"
              /\ UNCHANGED <<stack, rv, waitVars, waitHist, callHist, calls>>
         [] op = "dev_disconnect" ->
              /\ pc' = "dd_read"
              /\ UNCHANGED <<stack, rv, waitVars, waitHist, callHist, calls>>
         [] op = "get_connections" ->
              /\ EnterCall(ListConnectionsMsg, "gc_list_ret")
              /\ UNCHANGED <<rv, waitVars, waitHist>>
         [] op = "get_active_connections" ->
              /\ pc' = "gac_list"
              /\ UNCHANGED <<stack, rv, waitVars, waitHist, callHist, calls>>
         [] op = "get_access_points" ->
              /\ pc' = "gap_list"
              /\ UNCHANGED <<stack, rv, waitVars, waitHist, callHist, calls>>
    /\ UNCHANGED <<remoteVars, op, lookupVars, method_timeout, result>>
    /\ UNCHANGED observed
    /\ UNCHANGED lastRead
    /\ UNCHANGED <<input, output>>
    /\ Hist

Init ==
    /\ op \in Ops
    /\ pc = "idle"
    /\ stack = IF op = "call" THEN <<>> ELSE <<"top_ret">>
    /\ rv = NoResult
    /\ result = NoResult
    /\ method_timeout \in IF op \in ConnOps \cup DevOps THEN 0..MaxTimeout
                         ELSE {DEFAULT_TIMEOUT}
    /\ IF op \in ConnOps \cup {"get_active_connections"}
       THEN /\ aconn \in BackingMaps
            /\ active \in ActiveLists
            /\ astate \in [ActiveIds -> IF op \in ConnOps THEN ConnCodes ELSE {0}]
            /\ \A i \in ActiveIds :
                   (i \notin Range(active) \/ aconn[i] = "other") => astate[i] = 0
       ELSE /\ aconn = [i \in ActiveIds |-> "other"]
            /\ active = <<>>
            /\ astate = [i \in ActiveIds |-> 0]
    /\ dstate \in IF op \in DevOps THEN DevCodes ELSE {30}
    /\ paths = <<>>
    /\ idx = 0
    /\ found = 0
    /\ lists = 0
    /\ target \in CASE op = "wait" -> ConnTargets
                    [] op = "dev_wait" -> DevTargets
                    [] OTHER -> {"none"}
    /\ timeout = 0
    /\ total_time = 0
    /\ retries = 0
    /\ msg \in IF op = "call" THEN CallMsgs ELSE {NoMsg}
    /\ inWait = FALSE
    /\ reads = 0
    /\ sleeps = 0
    /\ gap = 0
    /\ gapsOk = TRUE
    /\ lastObs = NoResult
    /\ sawTarget = FALSE
    /\ reached = FALSE
    /\ everMatch = (op \in {"get_state", "deactivate"} /\ FirstMatch(active, aconn) # 0)
    /\ sends = 0
    /\ csleeps = 0
    /\ transients = 0
    /\ lastReply = ""
    /\ calls = <<>>
    /\ args = <<>>
    /\ observed = "none"
    /\ waits = 0
    /\ lastRead = NoRead
    /\ clean = FALSE
    /\ input = <<>>
    /\ output = <<>>
    /\ collected = <<>>
    /\ aps \in IF op = "get_access_points" THEN ApLists ELSE {<<>>}
    /\ settings \in IF op = "get_connections" THEN SettingsLists ELSE {<<>>}

Next ==
    \/ Invoke
    \/ TopReturn
    \/ \E id \in ActiveIds, pos \in 1..MaxActive, code \in ConnCodes : EnvActivate(id, pos, code)
    \/ \E id \in ActiveIds : EnvRemove(id)
    \/ \E id \in ActiveIds, code \in ConnCodes : EnvConnState(id, code)
    \/ \E code \in DevCodes : EnvDevState(code)
    \/ CallBadMessage
    \/ CallSendOk
    \/ \E name \in ErrorNames : CallSendError(name)
    \/ CallSleep
    \/ \E ok \in BOOLEAN : LookupList(ok)
    \/ \E ok \in BOOLEAN : LookupScan(ok)
    \/ GetStateLookedUp
    \/ \E ok \in BOOLEAN : GetStateRead(ok)
    \/ ConnWaitZeroReturn
    \/ ConnWaitSleep
    \/ ConnWaitPolled
    \/ ActivateGotState
    \/ ActivateCalled
    \/ DeactivateGotState
    \/ DeactivateLookedUp
    \/ DeactivateCalled
    \/ \E ok \in BOOLEAN : DevWaitZeroRead(ok)
    \/ DevWaitSleep
    \/ \E ok \in BOOLEAN : DevWaitPoll(ok)
    \/ \E ok \in BOOLEAN : DevConnectRead(ok)
    \/ DevConnectCalled
    \/ \E ok \in BOOLEAN : DevDisconnectRead(ok)
    \/ DevDisconnectCalled
    \/ \E decoded \in BOOLEAN : GetConnectionsListed(decoded)
    \/ ConnectionInit
    \/ \E decoded \in BOOLEAN : ConnectionInitDone(decoded)
    \/ \E ok \in BOOLEAN : GetActiveList(ok)
    \/ \E ok \in BOOLEAN : GetActiveConn(ok)
    \/ \E ok \in BOOLEAN : ScanList(ok)
    \/ \E ok \in BOOLEAN : ScanSsid(ok)
    \/ \E ok \in BOOLEAN : ScanRead(ok)
    \/ \E ok \in BOOLEAN : ScanRsn(ok)

Spec == Init /\ [][Next]_vars

----------------------------------------------------------------------------
(* Functions checked on their own: the client at rest, one function applied *)

\* every variable but the position, the argument and the value computed
restVars == <<active, astate, aconn, dstate, aps, settings, op, stack, rv, paths, idx,
              found, lists, collected, target, timeout, total_time, retries,
              method_timeout, msg, result, inWait, reads, sleeps, gap, gapsOk, lastObs,
              sawTarget, reached, everMatch, sends, csleeps, transients, lastReply,
              calls, args, observed, waits, lastRead, clean>>

\* the client at rest, about to apply the function o to one of inputs
Quiet(o, inputs) ==
    /\ op = o
    /\ pc = "idle"
    /\ input \in inputs
    /\ output = <<>>
    /\ stack = <<>>
    /\ rv = NoResult
    /\ result = NoResult
    /\ method_timeout = DEFAULT_TIMEOUT
    /\ dstate = 30
    /\ settings = <<>>
    /\ paths = <<>>
    /\ idx = 0
    /\ found = 0
    /\ lists = 0
    /\ collected = <<>>
    /\ target = "none"
    /\ timeout = 0
    /\ total_time = 0
    /\ retries = 0
    /\ msg = NoMsg
    /\ inWait = FALSE
    /\ reads = 0
    /\ sleeps = 0
    /\ gap = 0
    /\ gapsOk = TRUE
    /\ lastObs = NoResult
    /\ sawTarget = FALSE
    /\ reached = FALSE
    /\ everMatch = FALSE
    /\ sends = 0
    /\ csleeps = 0
    /\ transients = 0
    /\ lastReply = ""
    /\ calls = <<>>
    /\ args = <<>>
    /\ observed = "none"
    /\ waits = 0
    /\ lastRead = NoRead
    /\ clean = FALSE

\* the same, and the service without active connections
AtRest(o, inputs) ==
    /\ Quiet(o, inputs)
    /\ aps = <<>>
    /\ aconn = [i \in ActiveIds |-> "other"]
    /\ active = <<>>
    /\ astate = [i \in ActiveIds |-> 0]

----------------------------------------------------------------------------
(* ssid.rs: building an Ssid from bytes and reading the bytes back *)

\* byte vectors of every length up to MaxBytes: one byte repeated, and a vector
\* of bytes that differ
SsidInputs ==
    {Fill(n, b) : n \in 0..MaxBytes, b \in {0, 97, 255}}
    \cup {[i \in 1..n |-> (i * 37) % 256] : n \in 0..MaxBytes}

\* Ssid::from_bytes(input)
SsidFromBytes ==
    /\ op = "from_bytes" /\ pc = "idle"
    /\ output' = [ssid |-> from_bytes(input), bytes |-> <<>>]
    /\ pc' = "built"
    /\ UNCHANGED <<restVars, input>>

\* as_bytes() of the Ssid that was built
SsidAsBytes ==
    /\ op = "from_bytes" /\ pc = "built"
    /\ output.ssid.kind = "Ok"
    /\ output' = [output EXCEPT !.bytes = as_bytes(output.ssid)]
    /\ pc' = "done"
    /\ UNCHANGED <<restVars, input>>

InitSsid == AtRest("from_bytes", SsidInputs)

NextSsid == SsidFromBytes \/ SsidAsBytes

SpecSsid == InitSsid /\ [][NextSsid]_vars

----------------------------------------------------------------------------
(* wifi.rs: the security of an access point, derived from its three flag words *)

\* Flags with and without the privacy and the WPS bit; WpaFlags and RsnFlags with
\* and without a cipher bit (CCMP), the PSK bit and the 802.1X bit
SecurityInputs ==
    {[flags |-> f, wpa_flags |-> w, rsn_flags |-> r] :
        f \in SUBSET {AP_FLAGS_PRIVACY, 2},
        w \in SUBSET {8, AP_SEC_KEY_MGMT_PSK, AP_SEC_KEY_MGMT_802_1X},
        r \in SUBSET {8, AP_SEC_KEY_MGMT_PSK, AP_SEC_KEY_MGMT_802_1X}}

\* get_access_point_security on the three values read
SecurityDerive ==
    /\ op = "security" /\ pc = "idle"
    /\ output' = get_access_point_security(input.flags, input.wpa_flags, input.rsn_flags)
    /\ pc' = "done"
    /\ UNCHANGED <<restVars, input>>

InitSecurity == AtRest("security", SecurityInputs)

NextSecurity == SecurityDerive

SpecSecurity == InitSecurity /\ [][NextSecurity]_vars

----------------------------------------------------------------------------
(* ssid.rs: equality and order of Ssid values *)

\* String into Vec<u8>: the UTF-8 encoding of a text, given as its code points
\* (below 2048: one byte for ASCII, two bytes otherwise)
Utf8Char(c) == IF c < 128 THEN <<c>> ELSE <<192 + (c \div 64), 128 + (c % 64)>>

RECURSIVE Utf8(_)
Utf8(text) == IF text = <<>> THEN <<>> ELSE Utf8Char(Head(text)) \o Utf8(Tail(text))

\* Ssid::from_bytes of a String or of a Vec<u8>
SsidOf(source) ==
    from_bytes(IF source.form = "text" THEN Utf8(source.data) ELSE source.data)

\* derive(PartialEq) on Ssid: the vectors are equal
ssid_eq(a, b) == a.vec = b.vec

\* derive(Ord) on Ssid: the order of the vectors, which is the order of slices:
\* the first position where they differ decides, otherwise the lengths do
ssid_cmpShortlex(a, b) ==
    LET l == IF Len(a.vec) < Len(b.vec) THEN Len(a.vec) ELSE Len(b.vec)
        diff == {i \in 1..l : a.vec[i] # b.vec[i]}
    IN  IF Len(a.vec) # Len(b.vec)
        THEN (IF Len(a.vec) < Len(b.vec) THEN "Less" ELSE "Greater")
        ELSE IF diff # {}
             THEN LET k == CHOOSE i \in diff : \A j \in diff : i <= j
                  IN  IF a.vec[k] < b.vec[k] THEN "Less" ELSE "Greater"
             ELSE "Equal"

ssid_cmp(a, b) ==
    LET l == IF Len(a.vec) < Len(b.vec) THEN Len(a.vec) ELSE Len(b.vec)
        diff == {i \in 1..l : a.vec[i] # b.vec[i]}
    IN  IF diff # {}
        THEN LET k == CHOOSE i \in diff : \A j \in diff : i <= j
             IN  IF a.vec[k] < b.vec[k] THEN "Less" ELSE "Greater"
        ELSE IF Len(a.vec) < Len(b.vec) THEN "Less"
             ELSE IF Len(a.vec) > Len(b.vec) THEN "Greater"
             ELSE "Equal"

\* texts over 'a' and e-acute, byte vectors over 'a' and the two bytes of e-acute
SeqsUpTo(n, alphabet) == UNION {[1..k -> alphabet] : k \in 0..n}

SsidSources ==
    {[form |-> "text", data |-> t] : t \in SeqsUpTo(MaxCmpLen, {97, 233})}
    \cup {[form |-> "bytes", data |-> b] : b \in SeqsUpTo(MaxCmpLen, {97, 195, 169})}

\* three Ssid values are built
OrderBuild ==
    /\ op = "ssid_cmp" /\ pc = "idle"
    /\ output' = [ssids |-> [i \in 1..3 |-> SsidOf(input[i])], eq |-> <<>>, cmp |-> <<>>]
    /\ pc' = "built"
    /\ UNCHANGED <<restVars, input>>

\* every two of them are compared with == and with cmp
OrderCompare ==
    /\ op = "ssid_cmp" /\ pc = "built"
    /\ output' = [output EXCEPT
                      !.eq = [i \in 1..3 |-> [j \in 1..3 |->
                                 ssid_eq(output.ssids[i], output.ssids[j])]],
                      !.cmp = [i \in 1..3 |-> [j \in 1..3 |->
                                 ssid_cmp(output.ssids[i], output.ssids[j])]]]
    /\ pc' = "done"
    /\ UNCHANGED <<restVars, input>>

InitSsidOrder == AtRest("ssid_cmp", SsidSources \X SsidSources \X SsidSources)

NextSsidOrder == OrderBuild \/ OrderCompare

SpecSsidOrder == InitSsidOrder /\ [][NextSsidOrder]_vars

----------------------------------------------------------------------------
(* dbus_nm.rs: password validation *)

PSK_MIN_LEN == 8
PSK_MAX_LEN == 64

PreSharedKey(info) == [kind |-> "Err", error |-> "PreSharedKey", info |-> info]

\* AsciiStr::from_ascii: every byte of the string is below 128
from_ascii(bytes) == \A i \in 1..Len(bytes) : bytes[i] < 128

\* verify_ascii_password, the password given as its code points
verify_ascii_passwordShort(password) ==
    LET p == Utf8(password)
    IN  IF ~from_ascii(p) THEN PreSharedKey("Not an ASCII password")
        ELSE IF Len(p) <= PSK_MIN_LEN
             THEN PreSharedKey("Password length should be at least 8 characters")
        ELSE IF Len(p) > PSK_MAX_LEN
             THEN PreSharedKey("Password length should not exceed 64")
        ELSE [kind |-> "Ok", password |-> password]

verify_ascii_password(password) ==
    LET p == Utf8(password)
    IN  IF ~from_ascii(p) THEN PreSharedKey("Not an ASCII password")
        ELSE IF Len(p) < PSK_MIN_LEN
             THEN PreSharedKey("Password length should be at least 8 characters")
        ELSE IF Len(p) > PSK_MAX_LEN
             THEN PreSharedKey("Password length should not exceed 64")
        ELSE [kind |-> "Ok", password |-> password]

\* passwords of every length up to MaxPassword: of a letter, of a control
\* character, of DEL, of e-acute, and of letters that end in e-acute
PasswordInputs ==
    {Fill(n, c) : n \in 0..MaxPassword, c \in {97, 0, 127, 233}}
    \cup {[i \in 1..n |-> IF i = n THEN 233 ELSE 97] : n \in 1..MaxPassword}

PasswordVerify ==
    /\ op = "verify_ascii_password" /\ pc = "idle"
    /\ output' = verify_ascii_password(input)
    /\ pc' = "done"
    /\ UNCHANGED <<restVars, input>>

InitPassword == AtRest("verify_ascii_password", PasswordInputs)

NextPassword == PasswordVerify

SpecPassword == InitPassword /\ [][NextPassword]_vars

----------------------------------------------------------------------------
(* dbus_nm.rs: connect_to_access_point and create_hotspot *)

NM_WEP_KEY_TYPE_PASSPHRASE == 2

AccessPointPathArg == <<"/org/freedesktop/NetworkManager/AccessPoint", 1>>
RootPathArg == <<"/", 0>>

\* the error a failed validation returns
Invalid(v) == [kind |-> "Err", error |-> v.error]

\* the settings the operation has built
Built(dict) == [kind |-> "Ok", settings |-> dict]

\* str::from_utf8 on byte vectors of one-byte and two-byte sequences
RECURSIVE from_utf8(_)
from_utf8(bytes) ==
    IF bytes = <<>> THEN TRUE
    ELSE IF Head(bytes) < 128 THEN from_utf8(Tail(bytes))
    ELSE /\ Head(bytes) >= 194 /\ Head(bytes) <= 223
         /\ Len(bytes) >= 2
         /\ bytes[2] >= 128 /\ bytes[2] <= 191
         /\ from_utf8(Tail(Tail(bytes)))

\* the 802-11-wireless-security block of Wep credentials
wep_securityKeyMgmt(key) == ("key-mgmt" :> "none") @@ ("wep-key0" :> key)

wep_security(key) ==
    ("wep-key-type" :> NM_WEP_KEY_TYPE_PASSPHRASE) @@ ("wep-key0" :> key)

\* the 802-11-wireless-security block of Wpa credentials and of a hotspot
wpa_security(psk) == ("key-mgmt" :> "wpa-psk") @@ ("psk" :> psk)

\* the 802-1x block of Enterprise credentials
enterprise_eapChecked(identity, passphrase) ==
    ("eap" :> <<"peap">>) @@ ("identity" :> identity)
    @@ ("password" :> IF verify_ascii_password(passphrase).kind = "Ok"
                      THEN passphrase ELSE <<>>)
    @@ ("phase2-auth" :> "mschapv2")

enterprise_eap(identity, passphrase) ==
    ("eap" :> <<"peap">>) @@ ("identity" :> identity) @@ ("password" :> passphrase)
    @@ ("phase2-auth" :> "mschapv2")

\* Display for Ipv4Addr: the four octets in decimal with dots between, as
\* character codes
Ipv4Display(address) ==
    LET dec(n) == [i \in 1..Len(LastSegment(n)) |-> 48 + LastSegment(n)[i]]
    IN  dec(address[1]) \o <<46>> \o dec(address[2]) \o <<46>> \o dec(address[3])
        \o <<46>> \o dec(address[4])

\* the ipv4 block of a hotspot
hotspot_ipv4Shared(address) == "method" :> "shared"

hotspot_ipv4(address) ==
    IF address # <<>>
    THEN ("method" :> "manual")
         @@ ("address-data" :>
                <<("address" :> Ipv4Display(Head(address))) @@ ("prefix" :> 24)>>)
    ELSE "method" :> "shared"

\* connect_to_access_point up to the method call: the settings dictionary of the
\* call, or the error of password validation; access_point is the Ssid of the
\* access point, credentials a record of the variant and its fields
connect_settingsUnchecked(access_point, credentials) ==
    LET wireless == "ssid" :> as_bytes(access_point)
    IN  CASE credentials.kind = "Wep" ->
               Built(("802-11-wireless" :> wireless)
                     @@ ("802-11-wireless-security" :>
                            wep_security(credentials.passphrase)))
          [] credentials.kind = "Wpa" ->
               Built(("802-11-wireless" :> wireless)
                     @@ ("802-11-wireless-security" :>
                            wpa_security(credentials.passphrase)))
          [] credentials.kind = "Enterprise" ->
               Built(("802-11-wireless" :> wireless)
                     @@ ("802-11-wireless-security" :> ("key-mgmt" :> "wpa-eap"))
                     @@ ("802-1x" :>
                            enterprise_eap(credentials.identity, credentials.passphrase)))
          [] OTHER -> Built("802-11-wireless" :> wireless)

connect_settings(access_point, credentials) ==
    LET wireless == "ssid" :> as_bytes(access_point)
    IN  CASE credentials.kind = "Wep" ->
               LET key == verify_ascii_password(credentials.passphrase)
               IN  IF key.kind = "Err" THEN Invalid(key)
                   ELSE Built(("802-11-wireless" :> wireless)
                              @@ ("802-11-wireless-security" :>
                                     wep_security(key.password)))
          [] credentials.kind = "Wpa" ->
               LET psk == verify_ascii_password(credentials.passphrase)
               IN  IF psk.kind = "Err" THEN Invalid(psk)
                   ELSE Built(("802-11-wireless" :> wireless)
                              @@ ("802-11-wireless-security" :>
                                     wpa_security(psk.password)))
          [] credentials.kind = "Enterprise" ->
               Built(("802-11-wireless" :> wireless)
                     @@ ("802-11-wireless-security" :> ("key-mgmt" :> "wpa-eap"))
                     @@ ("802-1x" :>
                            enterprise_eap(credentials.identity, credentials.passphrase)))
          [] OTHER -> Built("802-11-wireless" :> wireless)

\* create_hotspot up to the method call: the settings dictionary of the call, or
\* the error of the SSID or of the password; password and address are sequences
\* of no element (None) or of one (Some)
hotspot_settings(interface, ssid, password, address) ==
    LET slice == as_ssid_slice(ssid)
        psk == verify_ascii_password(Head(password))
        wireless == ("ssid" :> ssid) @@ ("band" :> "bg") @@ ("hidden" :> FALSE)
                    @@ ("mode" :> "ap")
        connection == ("autoconnect" :> FALSE)
                      @@ (IF from_utf8(ssid) THEN "id" :> ssid ELSE <<>>)
                      @@ ("interface-name" :> interface)
                      @@ ("type" :> "802-11-wireless")
        ipv4 == hotspot_ipv4(address)
    IN  IF slice.kind = "Err" THEN Invalid(slice)
        ELSE IF password # <<>> /\ psk.kind = "Err" THEN Invalid(psk)
        ELSE IF password # <<>>
        THEN Built(("802-11-wireless-security" :> wpa_security(psk.password))
                   @@ ("802-11-wireless" :>
                          (wireless @@ ("security" :> "802-11-wireless-security")))
                   @@ ("connection" :> connection)
                   @@ ("ipv4" :> ipv4))
        ELSE Built(("802-11-wireless" :> wireless)
                   @@ ("connection" :> connection)
                   @@ ("ipv4" :> ipv4))

\* the AddAndActivateConnection call: the settings, the device and the specific object
AddAndActivateMsg(dict, specific_object) ==
    [interface |-> NM_SERVICE_INTERFACE, method |-> "AddAndActivateConnection",
     path |-> NM_SERVICE_PATH, arg |-> DevPathArg, valid |-> TRUE,
     settings |-> dict, specific_object |-> specific_object]

AddOps == {"connect_to_access_point", "create_hotspot"}

\* the operation builds its settings and, unless validation fails, makes the call
AddAndActivateBuild ==
    /\ pc = "idle"
    /\ op \in AddOps
    /\ LET built == IF op = "connect_to_access_point"
                    THEN connect_settings(input.access_point, input.credentials)
                    ELSE hotspot_settings(input.interface, input.ssid, input.password,
                                          input.address)
           specific == IF op = "connect_to_access_point" THEN AccessPointPathArg
                       ELSE RootPathArg
       IN  IF built.kind = "Err"
           THEN /\ rv' = Err(built.error)
                /\ pc' = "top_ret"
                /\ UNCHANGED <<stack, callHist, calls, output>>
           ELSE /\ EnterCall(AddAndActivateMsg(built.settings, specific), "aa_ret")
                /\ output' = built.settings
                /\ UNCHANGED rv
    /\ UNCHANGED <<remoteVars, op, lookupVars, waitVars, method_timeout, result, waitHist>>
    /\ UNCHANGED observed
    /\ UNCHANGED lastRead
    /\ UNCHANGED input
    /\ Hist

\* the service takes the call: it adds the connection to its settings, activates
\* it on the device and replies with the two paths
AddAndActivateServed ==
    /\ pc = "call_send"
    /\ msg.method = "AddAndActivateConnection"
    /\ \E id \in ActiveIds :
          /\ id \notin Range(active)
          /\ active' = Append(active, id)
          /\ aconn' = [aconn EXCEPT ![id] = "self"]
          /\ astate' = [astate EXCEPT ![id] = 1]
    /\ settings' = Append(settings, ConnPathArg[2])
    /\ sends' = sends + 1
    /\ lastReply' = "reply"
    /\ Return(Ok("reply"))
    /\ UNCHANGED <<dstate, aps, op, lookupVars, waitVars, method_timeout, result,
                   waitHist, retries, msg, csleeps, transients, calls>>
    /\ UNCHANGED observed
    /\ UNCHANGED lastRead
    /\ UNCHANGED <<input, output>>
    /\ Hist

\* extract_two and path_to_string on the reply; decoded says whether the reply
\* has the shape of two object paths
AddAndActivateCalled(decoded) ==
    /\ pc = "aa_ret"
    /\ LeaveCall
    /\ rv' = IF rv.kind = "Err" THEN rv
             ELSE IF ~decoded THEN Err(WRONG_RESPONSE)
             ELSE Ok(<<ConnPathArg, ActivePath(active[Len(active)])>>)
    /\ pc' = "top_ret"
    /\ UNCHANGED stack
    /\ UNCHANGED <<remoteVars, op, lookupVars, waitVars, method_timeout, result,
                   waitHist, calls>>
    /\ UNCHANGED observed
    /\ UNCHANGED lastRead
    /\ UNCHANGED <<input, output>>
    /\ Hist

\* passwords at and around the two length limits, and one that is not ASCII
PasswordSamples == {Fill(7, 97), Fill(8, 97), Fill(64, 97), Fill(65, 97), Fill(8, 233)}

AccessPointCredentials ==
    {[kind |-> "None", identity |-> <<>>, passphrase |-> <<>>]}
    \cup [kind : {"Wep", "Wpa"}, identity : {<<>>}, passphrase : PasswordSamples]
    \cup [kind : {"Enterprise"}, identity : {<<117>>}, passphrase : PasswordSamples]

ConnectInputs ==
    [access_point : {from_bytes(<<104, 105>>), from_bytes(<<255>>)},
     credentials : AccessPointCredentials]

HotspotInputs ==
    [interface : {"wlan0"},
     ssid : {<<104, 105>>, <<255>>, Fill(SSID_MAX_LEN, 97), Fill(SSID_MAX_LEN + 1, 97)},
     password : {<<>>} \cup {<<p>> : p \in PasswordSamples},
     address : {<<>>, <<<<192, 168, 42, 1>>>>}]

InitAddAndActivate ==
    \/ AtRest("connect_to_access_point", ConnectInputs)
    \/ AtRest("create_hotspot", HotspotInputs)

NextAddAndActivate ==
    \/ AddAndActivateBuild
    \/ AddAndActivateServed
    \/ \E name \in ErrorNames : CallSendError(name)
    \/ CallSleep
    \/ \E decoded \in BOOLEAN : AddAndActivateCalled(decoded)
    \/ TopReturn

SpecAddAndActivate == InitAddAndActivate /\ [][NextAddAndActivate]_vars

----------------------------------------------------------------------------
(* The decoders of the wire-coded enums *)

MaxCode == 125       \* largest wire code decoded

\* device.rs From<i64> for DeviceType
DeviceTypeFrom(code) ==
    CASE code = 0  -> "Unknown"
      [] code = 1  -> "Ethernet"
      [] code = 2  -> "WiFi"
      [] code = 3  -> "Unused1"
      [] code = 4  -> "Unused2"
      [] code = 5  -> "Bt"
      [] code = 6  -> "OlpcMesh"
      [] code = 7  -> "Wimax"
      [] code = 8  -> "Modem"
      [] code = 9  -> "Infiniband"
      [] code = 10 -> "Bond"
      [] code = 11 -> "Vlan"
      [] code = 12 -> "Adsl"
      [] code = 13 -> "Bridge"
      [] code = 14 -> "Generic"
      [] code = 15 -> "Team"
      [] code = 16 -> "Tun"
      [] code = 17 -> "IpTunnel"
      [] code = 18 -> "Macvlan"
      [] code = 19 -> "Vxlan"
      [] code = 20 -> "Veth"
      [] code = 21 -> "Macsec"
      [] code = 22 -> "Dummy"
      [] OTHER     -> "Unknown"

\* From<u32> for NetworkManagerState of the manager module that lib.rs builds
NetworkManagerStateFrom(code) ==
    CASE code = 0  -> "Unknown"
      [] code = 10 -> "Asleep"
      [] code = 20 -> "Disconnected"
      [] code = 30 -> "Disconnecting"
      [] code = 40 -> "Connecting"
      [] code = 50 -> "ConnectedLocal"
      [] code = 60 -> "ConnectedSite"
      [] code = 70 -> "ConnectedGlobal"
      [] OTHER     -> "Unknown"

\* From<u32> for Connectivity of the manager module that lib.rs builds
ConnectivityFrom(code) ==
    CASE code = 0 -> "Unknown"
      [] code = 1 -> "None"
      [] code = 2 -> "Portal"
      [] code = 3 -> "Limited"
      [] code = 4 -> "Full"
      [] OTHER    -> "Unknown"

WireEnums == {"ConnectionState", "DeviceState", "DeviceType", "NetworkManagerState",
              "Connectivity"}

\* the read of a wire-coded value that the service answered with code
DecodeRead ==
    /\ op = "decode" /\ pc = "idle"
    /\ output' = Ok(CASE input.enum = "ConnectionState" -> ConnectionStateFrom(input.code)
                      [] input.enum = "DeviceState" -> DeviceStateFrom(input.code)
                      [] input.enum = "DeviceType" -> DeviceTypeFrom(input.code)
                      [] input.enum = "NetworkManagerState" ->
                           NetworkManagerStateFrom(input.code)
                      [] OTHER -> ConnectivityFrom(input.code))
    /\ pc' = "done"
    /\ UNCHANGED <<restVars, input>>

InitDecode == AtRest("decode", [enum : WireEnums, code : 0..MaxCode])

NextDecode == DecodeRead

SpecDecode == InitDecode /\ [][NextDecode]_vars

----------------------------------------------------------------------------
(* dbus_api.rs: property *)

NM_ACTIVE_INTERFACE == "org.freedesktop.NetworkManager.Connection.Active"

\* a variant of the wire is its kind (int, bool, str, array_int, array_str) and
\* its value; RefArg::as_i64 gives a number for an integer and for a boolean
as_i64(variant) ==
    CASE variant.kind = "int"  -> <<variant.value>>
      [] variant.kind = "bool" -> <<IF variant.value THEN 1 ELSE 0>>
      [] OTHER -> <<>>

\* VariantTo<T>::variant_to: the decoded value in a sequence, or the empty
\* sequence for None
variant_to(T, variant) ==
    CASE T = "i64" -> as_i64(variant)
      [] T = "u32" -> as_i64(variant)   \* v as u32: v itself, the numbers of the
                                        \* model being from 0 to 2^31 - 1
      [] T = "bool" -> IF as_i64(variant) = <<>> THEN <<>>
                       ELSE <<as_i64(variant)[1] = 0>>
      [] T = "String" -> IF variant.kind = "str" THEN <<variant.value>> ELSE <<>>
      [] T = "Vec<String>" ->
           IF variant.kind = "array_str" THEN <<variant.value>>
           ELSE IF variant.kind = "array_int" /\ variant.value = <<>> THEN <<<<>>>>
           ELSE <<>>
      [] OTHER ->
           IF variant.kind = "array_int"
           THEN <<[i \in 1..Len(variant.value) |-> variant.value[i] % 256]>>
           ELSE IF variant.kind = "array_str" /\ variant.value = <<>> THEN <<<<>>>>
           ELSE <<>>

WRONG_PROPERTY_TYPE == "wrong property type"
NO_DETAILS == "no details"

\* property_error: the error names the interface, the property and the path
property_error(path, interface, name, details) ==
    [kind |-> "Err", val |-> details,
     ctx |-> [interface |-> interface, property |-> name, path |-> path]]

\* property::<T>(path, interface, name), the service answering with answer: a
\* variant, or an error whose message is a sequence of no or one text
propertyLenient(path, interface, name, T, answer) ==
    IF answer.kind = "error"
    THEN property_error(path, interface, name,
                        IF answer.value # <<>> THEN answer.value[1] ELSE NO_DETAILS)
    ELSE Ok(IF variant_to(T, answer) # <<>> THEN variant_to(T, answer)[1] ELSE 0)

property(path, interface, name, T, answer) ==
    IF answer.kind = "error"
    THEN property_error(path, interface, name,
                        IF answer.value # <<>> THEN answer.value[1] ELSE NO_DETAILS)
    ELSE IF variant_to(T, answer) # <<>> THEN Ok(variant_to(T, answer)[1])
    ELSE property_error(path, interface, name, WRONG_PROPERTY_TYPE)

WireTypes == {"i64", "u32", "bool", "String", "Vec<String>", "Vec<u8>"}

\* answers of the service: variants of every kind, and errors with and without
\* a message
Answers ==
    [kind : {"int"}, value : {0, 2, 99}]
    \cup [kind : {"bool"}, value : BOOLEAN]
    \cup [kind : {"str"}, value : {"wlan0"}]
    \cup [kind : {"array_int"}, value : {<<>>, <<104, 105>>, <<300>>}]
    \cup [kind : {"array_str"}, value : {<<"/org/freedesktop/NetworkManager/Devices/2">>}]
    \cup [kind : {"error"}, value : {<<>>, <<"No such property">>}]

PropertyInputs ==
    [target : {[path |-> DevPath, interface |-> NM_DEVICE_INTERFACE, name |-> "State"],
               [path |-> "/org/freedesktop/NetworkManager/ActiveConnection/1",
                interface |-> NM_ACTIVE_INTERFACE, name |-> "Connection"],
               [path |-> NM_SERVICE_PATH, interface |-> NM_SERVICE_INTERFACE,
                name |-> "WirelessEnabled"],
               [path |-> NM_SERVICE_PATH, interface |-> NM_SERVICE_INTERFACE,
                name |-> "NetworkingEnabled"]},
     T : WireTypes, answer : Answers]

PropertyRead ==
    /\ op = "property" /\ pc = "idle"
    /\ output' = property(input.target.path, input.target.interface, input.target.name,
                          input.T, input.answer)
    /\ pc' = "done"
    /\ UNCHANGED <<restVars, input>>

InitProperty == AtRest("property", PropertyInputs)

NextProperty == PropertyRead

SpecProperty == InitProperty /\ [][NextProperty]_vars

----------------------------------------------------------------------------
(* connection.rs: get_connection_active_path on its own *)

MaxLookup == 3       \* number of active-connection objects of the lookup

LookupIds == 1..MaxLookup

\* the lookup is entered
LookupInvoke ==
    /\ op = "get_connection_active_path" /\ pc = "idle"
    /\ pc' = "lk_list"
    /\ stack' = <<"top_ret">>
    /\ UNCHANGED <<remoteVars, op, rv, lookupVars, waitVars, method_timeout, result,
                   waitHist, callHist, calls>>
    /\ UNCHANGED observed
    /\ UNCHANGED lastRead
    /\ UNCHANGED <<input, output>>
    /\ Hist

\* the service has up to MaxLookup active objects in any order, each backing this
\* connection or another; input is the set of active objects whose Connection
\* property cannot be read
InitLookup ==
    /\ Quiet("get_connection_active_path", SUBSET LookupIds)
    /\ active \in {q \in UNION {[1..n -> LookupIds] : n \in 0..MaxLookup} :
                      \A i, j \in 1..Len(q) : i # j => q[i] # q[j]}
    /\ aconn \in [LookupIds -> {"self", "other"}]
    /\ aps = <<>>
    /\ astate = [i \in LookupIds |-> IF i \in Range(active) /\ aconn[i] = "self"
                                     THEN 2 ELSE 0]

NextLookup ==
    \/ LookupInvoke
    \/ \E ok \in BOOLEAN : LookupList(ok)
    \/ (pc = "lk_scan" /\ LookupScan(paths[idx] \notin input))
    \/ TopReturn

SpecLookup == InitLookup /\ [][NextLookup]_vars

----------------------------------------------------------------------------
(* wifi.rs: get_access_points against a device whose answers are fixed *)

\* access points with a valid Ssid: two strengths; open, with a bit outside
\* NM80211ApFlags in Flags, and with a bit outside NM80211ApSecurityFlags in
\* WpaFlags and in RsnFlags; and one access point with a too long Ssid
ScanSamples ==
    {[ssid |-> <<104, 105>>, strength |-> st, flags |-> f[1], wpa_flags |-> f[2],
      rsn_flags |-> f[3]] :
        st \in {20, 60},
        f \in {<<{}, {}, {}>>, <<{16}, {}, {}>>, <<{AP_FLAGS_PRIVACY}, {1024}, {}>>,
               <<{AP_FLAGS_PRIVACY}, {}, {AP_SEC_KEY_MGMT_PSK, 2048}>>}}
    \cup {[ssid |-> Fill(SSID_MAX_LEN + 1, 97), strength |-> 60, flags |-> {},
           wpa_flags |-> {}, rsn_flags |-> {}]}

ScanProperties == {"AccessPoints", "Strength", "Flags", "WpaFlags", "RsnFlags"}

\* input.ssid: the listed access points whose Ssid property cannot be read;
\* input.failing: a property that cannot be read on any object, or "none"
ScanInputs ==
    [ssid : SUBSET (1..MaxAps), failing : ScanProperties \cup {"none"}]

ScanInvoke ==
    /\ op = "get_access_points" /\ pc = "idle"
    /\ pc' = "gap_list"
    /\ stack' = <<"top_ret">>
    /\ UNCHANGED <<remoteVars, op, rv, lookupVars, waitVars, method_timeout, result,
                   waitHist, callHist, calls>>
    /\ UNCHANGED observed
    /\ UNCHANGED lastRead
    /\ UNCHANGED <<input, output>>
    /\ Hist

InitScan ==
    /\ Quiet("get_access_points", ScanInputs)
    /\ aps \in UNION {[1..n -> ScanSamples] : n \in 0..MaxAps}
    /\ aconn = [i \in ActiveIds |-> "other"]
    /\ active = <<>>
    /\ astate = [i \in ActiveIds |-> 0]

NextScan ==
    \/ ScanInvoke
    \/ ScanList(input.failing # "AccessPoints")
    \/ (pc = "gap_ssid" /\ ScanSsid(paths[idx] \notin input.ssid))
    \/ (pc = "gap_strength" /\ ScanRead(input.failing # "Strength"))
    \/ (pc = "gap_flags" /\ ScanRead(input.failing # "Flags"))
    \/ (pc = "gap_wpa" /\ ScanRead(input.failing # "WpaFlags"))
    \/ ScanRsn(input.failing # "RsnFlags")
    \/ TopReturn

SpecScan == InitScan /\ [][NextScan]_vars

----------------------------------------------------------------------------
(* service.rs: start_service, stop_service and the handler that waits for the
   unit to reach the target state *)

MaxChanges == 2      \* changes of the unit and other signals during one call

\* the ActiveState values ServiceState::from_str knows, and one it does not
ServiceStates == {"active", "reloading", "inactive", "failed", "activating", "deactivating"}
UnitStates == ServiceStates \cup {"maintenance"}

\* a PropertiesChanged signal of the unit that does not carry ActiveState
OtherSignal == "SubState"

from_str(s) == IF s \in ServiceStates THEN Ok(s) ELSE Err("NotFound")

\* get_service_state: the calls fail, or the ActiveState read is parsed
get_service_state(ok, unit) == IF ok THEN from_str(unit) ELSE Err("Connection")

\* start_service waits for Active and stop_service for Inactive
TargetState == IF op = "start_service" THEN "active" ELSE "inactive"

\* the state from which the handler is entered without a request
Transient == IF op = "start_service" THEN "activating" ELSE "deactivating"

\* the worker after add_match: the state is read before the signals are
\* iterated (the variant without the read goes to the iteration at once)
WorkerAfterMatchIter(subscribed) == IF subscribed THEN "h_iter" ELSE "h_select"

WorkerAfterMatch(subscribed) == IF subscribed THEN "h_read" ELSE "h_select"

ServiceInputs == [timeout : {0, 5}, unit : UnitStates]

\* the call has returned val
ServiceReturn(val) ==
    /\ output' = [output EXCEPT !.result = val]
    /\ pc' = "done"

\* start_service, stop_service: get_service_state and the match on it
ServiceInvoke(ok) ==
    /\ op \in {"start_service", "stop_service"} /\ pc = "idle"
    /\ LET state == get_service_state(ok, input.unit)
           fresh == [unit |-> input.unit, subscribed |-> FALSE, queue |-> <<>>,
                     worker |-> NoResult, result |-> NoResult, atMatch |-> "",
                     atRead |-> NoResult, taken |-> 0, changes |-> 0, fired |-> FALSE]
       IN  IF state.kind = "Err"
           THEN output' = [fresh EXCEPT !.result = state] /\ pc' = "done"
           ELSE IF state.val = TargetState
           THEN output' = [fresh EXCEPT !.result = state] /\ pc' = "done"
           ELSE IF state.val = Transient
           THEN output' = fresh /\ pc' = "handler"
           ELSE IF state.val = "failed"
           THEN output' = [fresh EXCEPT !.result = Err("Failed")] /\ pc' = "done"
           ELSE output' = fresh /\ pc' = "sd_request"
    /\ UNCHANGED <<restVars, input>>

\* StartUnit / StopUnit is sent and answered, or the connection fails
ServiceRequest(ok) ==
    /\ pc = "sd_request"
    /\ IF ok
       THEN pc' = "handler" /\ UNCHANGED output
       ELSE ServiceReturn(Err("Connection"))
    /\ UNCHANGED <<restVars, input>>

\* handler: timeout 0 reads the state once; otherwise the timer is started and
\* the worker is spawned
HandlerEnter ==
    /\ pc = "handler"
    /\ pc' = IF input.timeout = 0 THEN "h_state" ELSE "h_connect"
    /\ UNCHANGED <<restVars, input, output>>

HandlerState(ok) ==
    /\ pc = "h_state"
    /\ ServiceReturn(get_service_state(ok, output.unit))
    /\ UNCHANGED <<restVars, input>>

\* the worker is over with val; the handler has yet to take its result
WorkerReturn(val) ==
    /\ output' = [output EXCEPT !.worker = val]
    /\ pc' = "h_select"

\* worker: Connection::get_private
WorkerConnect(ok) ==
    /\ pc = "h_connect"
    /\ IF ok
       THEN pc' = "h_match" /\ UNCHANGED output
       ELSE WorkerReturn(Err("Connection"))
    /\ UNCHANGED <<restVars, input>>

\* worker: add_match; from here on the signals of the unit are queued
WorkerAddMatch(ok) ==
    /\ pc = "h_match"
    /\ output' = [output EXCEPT !.subscribed = ok,
                                !.atMatch = IF ok THEN output.unit ELSE "",
                                !.worker = IF ok THEN NoResult ELSE Err("Connection")]
    /\ pc' = WorkerAfterMatch(ok)
    /\ UNCHANGED <<restVars, input>>

\* worker: get_service_state after the subscription
WorkerRead(ok) ==
    /\ pc = "h_read"
    /\ LET state == get_service_state(ok, output.unit)
       IN  IF state.kind = "Err"
           THEN /\ output' = [output EXCEPT !.atRead = state, !.worker = state]
                /\ pc' = "h_select"
           ELSE IF state.val = TargetState
           THEN /\ output' = [output EXCEPT !.atRead = state, !.worker = Ok(TargetState)]
                /\ pc' = "h_select"
           ELSE /\ output' = [output EXCEPT !.atRead = state]
                /\ pc' = "h_iter"
    /\ UNCHANGED <<restVars, input>>

\* worker: the next signal of connection.iter(0); one without ActiveState is
\* passed over, one with the target state ends the worker, one with a state
\* that does not parse ends it with the error
WorkerSignal ==
    /\ pc = "h_iter" /\ output.queue # <<>>
    /\ LET signal == Head(output.queue)
           rest == [output EXCEPT !.queue = Tail(output.queue), !.taken = @ + 1]
       IN  IF signal = OtherSignal
           THEN output' = rest /\ pc' = pc
           ELSE IF from_str(signal).kind = "Err"
           THEN output' = [rest EXCEPT !.worker = from_str(signal)] /\ pc' = "h_select"
           ELSE IF signal = TargetState
           THEN output' = [rest EXCEPT !.worker = Ok(TargetState)] /\ pc' = "h_select"
           ELSE output' = rest /\ pc' = pc
    /\ UNCHANGED <<restVars, input>>

WorkerPcs == {"h_connect", "h_match", "h_read", "h_iter", "h_select"}

\* timer.select(process): the worker is over and the timer has not fired
HandlerSelect ==
    /\ pc = "h_select"
    /\ ServiceReturn(output.worker)
    /\ UNCHANGED <<restVars, input>>

\* timer.select(process): the timer fires before the result of the worker is taken
TimerFire ==
    /\ pc \in WorkerPcs
    /\ output' = [output EXCEPT !.result = Err("TimedOut"), !.fired = TRUE]
    /\ pc' = "done"
    /\ UNCHANGED <<restVars, input>>

\* systemd: the unit changes its ActiveState, and says so to the subscribers
UnitChange(s) ==
    /\ pc \notin {"idle", "done"}
    /\ output.changes < MaxChanges
    /\ s # output.unit
    /\ output' = [output EXCEPT !.unit = s, !.changes = @ + 1,
                                !.queue = IF output.subscribed THEN Append(@, s) ELSE @]
    /\ UNCHANGED <<restVars, input, pc>>

\* systemd: another property of the unit changes
UnitOther ==
    /\ pc \notin {"idle", "done"}
    /\ output.changes < MaxChanges
    /\ output.subscribed
    /\ output' = [output EXCEPT !.changes = @ + 1, !.queue = Append(@, OtherSignal)]
    /\ UNCHANGED <<restVars, input, pc>>

InitService ==
    \E o \in {"start_service", "stop_service"} : AtRest(o, ServiceInputs)

NextService ==
    \/ \E ok \in BOOLEAN : ServiceInvoke(ok)
    \/ \E ok \in BOOLEAN : ServiceRequest(ok)
    \/ HandlerEnter
    \/ \E ok \in BOOLEAN : HandlerState(ok)
    \/ \E ok \in BOOLEAN : WorkerConnect(ok)
    \/ \E ok \in BOOLEAN : WorkerAddMatch(ok)
    \/ \E ok \in BOOLEAN : WorkerRead(ok)
    \/ WorkerSignal
    \/ HandlerSelect
    \/ TimerFire
    \/ \E s \in UnitStates : UnitChange(s)
    \/ UnitOther

SpecService == InitService /\ [][NextService]_vars

----------------------------------------------------------------------------
(* Properties *)

Done == pc = "done"

\* a wait was entered and has returned; its result is in rv
WaitOver == waits = 1 /\ ~inWait

InCall == pc \in {"call_send", "call_sleep"}

\* C1: a wait with timeout T > 0 whose T polls all read a state other than the
\* target returns Ok with the state of the last poll, not an error
SoftTimeout ==
    (WaitOver /\ timeout > 0 /\ reads = timeout
        /\ lastObs.kind = "Ok" /\ lastObs.val # target)
    => rv = Ok(lastObs.val)

SoftTimeoutWitness ==
    /\ op = "wait" /\ Done /\ timeout >= 2 /\ reads = timeout
    /\ lastObs.kind = "Ok" /\ lastObs.val # target
    /\ result = Ok(lastObs.val)

\* C2: a wait with timeout T > 0 makes between 1 and T state reads, sleeps exactly
\* once before each of them, and has returned once the T-th read is done
PollBudget ==
    (waits = 1 /\ timeout > 0) =>
        /\ reads <= timeout
        /\ gapsOk
        /\ gap <= 1
        /\ sleeps = reads + gap
        /\ reads = timeout => ~inWait
        /\ ~inWait => (reads >= 1 /\ gap = 0)

PollBudgetWitness ==
    /\ op \in {"wait", "dev_wait"} /\ Done /\ timeout = MaxTimeout
    /\ reads = timeout /\ sleeps = timeout

\* C3 as stated: the returned state is the target iff the remote state was at the
\* target at some moment of the wait
TargetIffReached ==
    (WaitOver /\ timeout > 0 /\ rv.kind = "Ok") => ((rv.val = target) <=> reached)

\* C3 amended: the returned state is the target iff a state read of the wait
\* returned the target; for a device, and for the target Activated, the remote
\* state was then at the target during the wait
TargetIffObserved ==
    (WaitOver /\ timeout > 0 /\ rv.kind = "Ok") =>
        /\ (rv.val = target) <=> sawTarget
        /\ (rv.val = target /\ (op \in DevOps \/ target = "Activated")) => reached

TargetIffObservedWitness ==
    /\ WaitOver /\ timeout > 0 /\ rv.kind = "Ok" /\ Done
    /\ rv.val # target /\ reached /\ ~sawTarget

\* C4: a wait with timeout 0 never sleeps, reads the state once and returns what
\* that read gave
ZeroTimeout ==
    (waits = 1 /\ timeout = 0) =>
        /\ sleeps = 0
        /\ reads <= 1
        /\ ~inWait => (reads = 1 /\ rv = lastObs)

ZeroTimeoutWitness ==
    /\ op = "wait" /\ Done /\ timeout = 0 /\ reads = 1 /\ sleeps = 0
    /\ result.kind = "Ok" /\ result.val # target

\* a reply has arrived for the call whose frame is live, and it is an error that
\* is not in the retry list
OtherErrorReply == lastReply \notin ({"", "reply"} \cup METHOD_RETRY_ERROR_NAMES)

\* C5: a call sends at most 10 messages; each transient error but the 10th is
\* followed by one sleep and a resend, the 10th by the exhausted-retries error;
\* every step of the call uses up one of its 10 sends or 9 sleeps, so it ends
RetryBound ==
    /\ [](/\ sends <= 10
          /\ csleeps <= 9
          /\ pc = "call_send" => (csleeps = sends /\ transients = sends)
          /\ pc = "call_sleep" => (sends = csleeps + 1 /\ transients = sends /\ sends < 10)
          /\ transients = 10 =>
                 (~InCall /\ sends = 10 /\ csleeps = 9
                  /\ rv.kind = "Err" /\ rv.val = RETRIES_EXHAUSTED)
          /\ (lastReply # "" /\ rv.kind = "Err" /\ rv.val = RETRIES_EXHAUSTED) =>
                 transients = 10)
    /\ [][(InCall /\ pc' # pc) =>
              \/ sends' + csleeps' = sends + csleeps + 1
              \/ (~msg.valid /\ ~InCall')]_vars

RetryBoundWitness ==
    /\ op = "call" /\ Done /\ sends = 10 /\ csleeps = 9 /\ transients = 10
    /\ result.kind = "Err" /\ result.val = RETRIES_EXHAUSTED

\* C6: an error reply that is not in the retry list ends the call at once, without
\* a sleep or a resend after it, and the error names the interface, the method
\* and the path of the call
OtherErrorImmediate ==
    /\ OtherErrorReply =>
           /\ ~InCall
           /\ rv.kind = "Err" /\ rv.val = REMOTE_ERROR
           /\ sends = transients + 1
           /\ csleeps = transients
    /\ (~InCall /\ lastReply \notin {"", "reply"}) =>
           /\ rv.kind = "Err"
           /\ rv.ctx = [interface |-> msg.interface, method |-> msg.method,
                        path |-> msg.path]
           /\ rv.ctx.method # ""

OtherErrorImmediateWitness ==
    /\ op = "call" /\ Done /\ OtherErrorReply /\ sends = 1 /\ csleeps = 0
    /\ result.ctx.method = "Delete" /\ result.ctx.path = ConnPath

\* C7: get_state of a connection that no active object backs, the list of active
\* connections having been read, returns Ok(Deactivated)
NoMatchDeactivated ==
    (op = "get_state" /\ Done /\ lists = 1 /\ ~everMatch) => result = Ok("Deactivated")

NoMatchDeactivatedWitness ==
    /\ op = "get_state" /\ Done /\ lists = 1 /\ ~everMatch
    /\ active # <<>> /\ result = Ok("Deactivated")

\* C8: activate on a connection observed Activated returns Activated at once:
\* no method call, no wait, no sleep
ActivateIdempotent ==
    (op = "activate" /\ observed = "Activated") =>
        /\ pc \in {"top_ret", "done"}
        /\ rv = Ok("Activated")
        /\ calls = <<>> /\ sends = 0
        /\ waits = 0 /\ sleeps = 0 /\ csleeps = 0
        /\ reads = 0

ActivateIdempotentWitness ==
    /\ op = "activate" /\ observed = "Activated" /\ Done /\ result = Ok("Activated")

\* C9: activate on a connection observed Activating issues no call and waits for
\* Activated with the method timeout
ActivatingWaits ==
    (op = "activate" /\ observed = "Activating") =>
        /\ calls = <<>> /\ sends = 0
        /\ waits = 1
        /\ target = "Activated" /\ timeout = method_timeout
        /\ Done => result = rv

ActivatingWaitsWitness ==
    /\ op = "activate" /\ observed = "Activating" /\ Done
    /\ waits = 1 /\ reads >= 2 /\ calls = <<>>

\* C10 as stated: in every observed state other than Activated and Activating,
\* activate issues exactly one ActivateConnection call
ActivateCallsOtherwise ==
    (op = "activate" /\ Done /\ observed \in {"Unknown", "Deactivating", "Deactivated"})
    => calls = <<"ActivateConnection">>

\* C10 amended: observed Deactivating or Deactivated, activate issues exactly one
\* ActivateConnection call and waits for Activated only after the call succeeded;
\* observed Unknown, it issues no call, does not wait and returns an error
ActivateCallsThenWaits ==
    op = "activate" =>
        /\ observed \in {"Deactivating", "Deactivated"} =>
               /\ calls = <<"ActivateConnection">>
               /\ InCall => waits = 0
               /\ waits = 1 => (target = "Activated" /\ timeout = method_timeout)
               /\ Done => \/ waits = 1
                          \/ (waits = 0 /\ result.kind = "Err"
                              /\ result.ctx.method = "ActivateConnection")
        /\ observed = "Unknown" =>
               /\ calls = <<>> /\ sends = 0 /\ waits = 0 /\ sleeps = 0
               /\ rv = Err(STATE_UNKNOWN)
        /\ waits = 1 => observed \in {"Activating", "Deactivating", "Deactivated"}

ActivateCallsThenWaitsWitness ==
    /\ op = "activate" /\ Done /\ observed = "Deactivated"
    /\ calls = <<"ActivateConnection">> /\ waits = 1 /\ reads >= 1
    /\ result = Ok("Activated")

DevActivatingStates ==
    {"Prepare", "Config", "NeedAuth", "IpConfig", "IpCheck", "Secondaries"}

\* C12 as stated: Device.connect on a device observed in a transitional activating
\* state waits without issuing a call
DevConnectThreeWay ==
    (op = "dev_connect" /\ observed \in DevActivatingStates) => calls = <<>>

\* C12 amended: Device.connect reads the State property of the device, without a
\* reverse lookup, and matches two ways: observed Activated, it returns Activated
\* without a call or a wait; observed in any other state, the activating ones
\* included, it issues one ActivateConnection call for the device and waits for
\* Activated only after the call succeeded; a failed state read is returned
DevConnectTwoWay ==
    op = "dev_connect" =>
        /\ lists = 0 /\ pc \notin {"lk_list", "lk_scan", "gs_state"}
        /\ observed = "Activated" =>
               /\ calls = <<>> /\ sends = 0 /\ waits = 0 /\ sleeps = 0
               /\ rv = Ok("Activated")
        /\ observed \notin {"none", "Activated"} =>
               /\ calls = <<"ActivateConnection">> /\ args = <<DevPathArg>>
               /\ InCall => waits = 0
               /\ waits = 1 => (target = "Activated" /\ timeout = method_timeout)
               /\ Done => \/ waits = 1
                          \/ (waits = 0 /\ result.kind = "Err"
                              /\ result.ctx.method = "ActivateConnection")
        /\ (observed = "none" /\ Done) => (result = Err(PROPERTY_FAILED) /\ calls = <<>>)

DevConnectTwoWayWitness ==
    /\ op = "dev_connect" /\ Done /\ observed = "Prepare"
    /\ calls = <<"ActivateConnection">> /\ waits = 1 /\ reads >= 1
    /\ result = Ok("Activated")

\* the latest property read of the operation failed
ReadFailed(name) == ~lastRead.ok /\ lastRead.property = name

\* C13 as stated: an operation that is not a wait and whose latest property read
\* failed returns an error
FailedReadIsError ==
    (Done /\ waits = 0 /\ ~lastRead.ok) => result.kind = "Err"

\* C13 amended: a failed read of a list property (ActiveConnections, AccessPoints),
\* of a device's State, or of the Strength, Flags, WpaFlags or RsnFlags of an access
\* point gives an error, and an error, of a read or of a method call, once produced
\* is what the operation returns.  Three reads fail without an error: the
\* Connection property of an active object (the object is passed over: get_state
\* reports Deactivated, get_active_connections leaves it out), the State property
\* of an active object (get_state reports Unknown, which activate and deactivate
\* turn into their 'Unable to get connection state' error), and the Ssid of an
\* access point (get_access_points leaves it out)
FailurePolicy ==
    /\ [](/\ (~lastRead.ok /\ lastRead.property \notin {"Connection", "State", "Ssid"})
                 => rv.kind = "Err"
          /\ (op \in DevOps /\ ReadFailed("State")) => rv.kind = "Err"
          /\ Done => result = rv
          /\ (op = "get_state" /\ Done /\ ReadFailed("State")) => result = Ok("Unknown")
          /\ (op = "get_state" /\ Done /\ ReadFailed("Connection"))
                 => result = Ok("Deactivated")
          /\ (op \in {"activate", "deactivate"} /\ Done /\ waits = 0 /\ ReadFailed("State"))
                 => result = Err(STATE_UNKNOWN)
          /\ (op = "get_active_connections" /\ Done /\ ReadFailed("Connection"))
                 => (result = Ok("list") /\ Len(collected) < Len(active))
          /\ (op = "get_access_points" /\ Done /\ ReadFailed("Ssid"))
                 => (result = Ok("list") /\ Len(collected) < Len(aps)))
    /\ [][rv.kind = "Err" => (rv' = rv /\ calls' = calls /\ lastRead' = lastRead)]_vars

FailurePolicyWitness ==
    /\ op = "get_access_points" /\ Done /\ ReadFailed("Ssid")
    /\ result = Ok("list") /\ Len(aps) = 2 /\ Len(collected) = 1

\* C14: from the moment a wait is entered the operation issues no method call and
\* sends no message, during the wait and after it has returned, whether it
\* returned the target or timed out; every step of a running wait is a sleep or
\* a state read, and the operation ends with the result of the wait
WaitOnlyReads ==
    /\ [](/\ inWait => (~InCall /\ msg = NoMsg /\ sends = 0)
          /\ (WaitOver /\ Done) => (result = rv /\ result = lastObs))
    /\ [][waits >= 1 => (calls' = calls /\ sends' = sends /\ msg' = msg /\ ~InCall')]_vars

WaitOnlyReadsWitness ==
    /\ op \in {"activate", "dev_disconnect"} /\ Done /\ WaitOver
    /\ timeout >= 2 /\ reads = timeout
    /\ result.kind = "Ok" /\ result.val # target /\ Len(calls) = 1

\* the state a request operation asks for
OpTarget(o) ==
    CASE o \in {"activate", "dev_connect"} -> "Activated"
      [] o = "deactivate" -> "Deactivated"
      [] OTHER -> "Disconnected"

\* C15: activate, deactivate, connect and disconnect wait for the state they ask
\* for; if the remote state is settled there from the first read of a round of
\* the wait, a round within the timeout, to the end of that round, and the reads
\* of the round succeed, the operation returns that state
SettledTargetReturned ==
    op \in RequestOps =>
        /\ waits >= 1 => target = OpTarget(op)
        /\ (WaitOver /\ clean) => (rv = Ok(OpTarget(op)) /\ reads <= timeout + 1)
        /\ (Done /\ WaitOver /\ clean) => result = Ok(OpTarget(op))

SettledTargetReturnedWitness ==
    /\ op = "deactivate" /\ Done /\ WaitOver /\ clean /\ observed = "Activated"
    /\ calls = <<"DeactivateConnection">> /\ reads >= 2 /\ reads < timeout
    /\ result = Ok("Deactivated")

\* C16: from_bytes of at most 32 bytes gives an Ssid whose as_bytes() is the very
\* bytes it was built from; from_bytes of more than 32 bytes gives the SSID error
\* with the length, and no Ssid, truncated or not
SsidRoundTrip ==
    op = "from_bytes" =>
        /\ (pc # "idle" /\ Len(input) <= 32) => output.ssid = [kind |-> "Ok", vec |-> input]
        /\ (pc # "idle" /\ Len(input) > 32) =>
               output.ssid = [kind |-> "Err", error |-> "SSID", len |-> Len(input)]
        /\ pc = "done" => (Len(input) <= 32 /\ output.bytes = input)

SsidRoundTripWitness ==
    /\ op = "from_bytes" /\ pc = "done" /\ Len(input) = 32
    /\ output.bytes = input /\ input[32] # input[31]

\* a is before b in the byte-wise lexicographic order
LexLess(a, b) ==
    \E k \in 1..Len(b) :
        /\ \A i \in 1..(k - 1) : i <= Len(a) /\ a[i] = b[i]
        /\ k > Len(a) \/ a[k] < b[k]

\* C17: two Ssid values are equal exactly when their bytes are the same, built
\* from text or from bytes; cmp is the byte-wise lexicographic order: it is Equal
\* exactly for equal values, Less exactly when the bytes come first, Greater the
\* other way round, and it is transitive
SsidOrder ==
    (op = "ssid_cmp" /\ pc = "done") =>
        /\ \A i, j \in 1..3 :
               LET a == as_bytes(output.ssids[i])
                   b == as_bytes(output.ssids[j])
               IN  /\ output.eq[i][j] <=> (a = b)
                   /\ (output.cmp[i][j] = "Equal") <=> output.eq[i][j]
                   /\ (output.cmp[i][j] = "Less") <=> LexLess(a, b)
                   /\ (output.cmp[i][j] = "Greater") <=> LexLess(b, a)
                   /\ (output.cmp[i][j] = "Less") <=> (output.cmp[j][i] = "Greater")
        /\ \A i, j, k \in 1..3 :
               (output.cmp[i][j] # "Greater" /\ output.cmp[j][k] # "Greater")
                   => output.cmp[i][k] # "Greater"
        /\ \A i \in 1..3 : output.cmp[i][i] = "Equal"

SsidOrderWitness ==
    /\ op = "ssid_cmp" /\ pc = "done"
    /\ input[1].form = "text" /\ input[2].form = "bytes" /\ 233 \in Range(input[1].data)
    /\ output.eq[1][2] /\ output.cmp[2][3] = "Greater" /\ output.cmp[1][3] = "Greater"
    /\ Len(as_bytes(output.ssids[3])) > Len(as_bytes(output.ssids[2]))

\* C18: the derived security depends on the privacy bit, the WPA flags and the RSN
\* flags alone, by steps 1 to 5: WEP exactly for privacy without WPA and RSN flags,
\* WPA exactly for some WPA flag, WPA2 exactly for some RSN flag, ENTERPRISE
\* exactly for 802.1X in either; so (true, NONE, NONE) gives WEP alone,
\* (false, PSK, NONE) WPA alone, (false, NONE, PSK) WPA2 alone,
\* (false, 802.1X, NONE) WPA with ENTERPRISE, and (false, NONE, NONE) NONE
SecurityDerivation ==
    (op = "security" /\ pc = "done") =>
        LET privacy == 1 \in input.flags
            wpa == input.wpa_flags
            rsn == input.rsn_flags
        IN  /\ output \subseteq {"WEP", "WPA", "WPA2", "ENTERPRISE"}
            /\ "WEP" \in output <=> (privacy /\ wpa = {} /\ rsn = {})
            /\ "WPA" \in output <=> wpa # {}
            /\ "WPA2" \in output <=> rsn # {}
            /\ "ENTERPRISE" \in output <=> (512 \in wpa \/ 512 \in rsn)
            /\ (privacy /\ wpa = {} /\ rsn = {}) => output = {"WEP"}
            /\ (~privacy /\ wpa = {256} /\ rsn = {}) => output = {"WPA"}
            /\ (~privacy /\ wpa = {} /\ rsn = {256}) => output = {"WPA2"}
            /\ (~privacy /\ wpa = {512} /\ rsn = {}) => output = {"WPA", "ENTERPRISE"}
            /\ (~privacy /\ wpa = {} /\ rsn = {}) => output = {}

SecurityDerivationWitness ==
    /\ op = "security" /\ pc = "done"
    /\ input.flags = {2} /\ input.wpa_flags = {512} /\ input.rsn_flags = {}
    /\ output = {"WPA", "ENTERPRISE"}

\* C19: a password is accepted, and returned as it is, exactly when all its
\* characters are ASCII and its length is from 8 to 64; every other password,
\* of length 7 or 65 or with a character that is not ASCII, gets a PreSharedKey
\* error
PasswordValidation ==
    (op = "verify_ascii_password" /\ pc = "done") =>
        /\ output.kind = "Ok" <=>
               /\ \A i \in 1..Len(input) : input[i] <= 127
               /\ Len(input) >= 8 /\ Len(input) <= 64
        /\ output.kind = "Ok" => output.password = input
        /\ output.kind # "Ok" => (output.kind = "Err" /\ output.error = "PreSharedKey")

PasswordValidationWitness ==
    /\ op = "verify_ascii_password" /\ pc = "done"
    /\ Len(input) = 8 /\ output = [kind |-> "Ok", password |-> input]

\* C20: when the password of Wep or Wpa credentials, or the password of a hotspot,
\* fails validation, or the hotspot SSID is longer than 32 bytes, the operation
\* sends no AddAndActivateConnection call and leaves the remote service as it was,
\* and it returns the error of the validation that failed
PasswordOk(p) == (\A i \in 1..Len(p) : p[i] <= 127) /\ Len(p) >= 8 /\ Len(p) <= 64

ValidationError ==
    CASE op = "connect_to_access_point" ->
           IF input.credentials.kind \in {"Wep", "Wpa"}
              /\ ~PasswordOk(input.credentials.passphrase)
           THEN "PreSharedKey" ELSE "none"
      [] op = "create_hotspot" ->
           IF Len(input.ssid) > 32 THEN "SSID"
           ELSE IF input.password # <<>> /\ ~PasswordOk(input.password[1])
           THEN "PreSharedKey" ELSE "none"
      [] OTHER -> "none"

ValidatedBeforeUse ==
    ValidationError # "none" =>
        /\ calls = <<>> /\ sends = 0 /\ msg = NoMsg
        /\ active = <<>> /\ settings = <<>>
        /\ astate = [i \in ActiveIds |-> 0]
        /\ pc = "done" => result = Err(ValidationError)

ValidatedBeforeUseWitness ==
    /\ op = "connect_to_access_point" /\ pc = "done"
    /\ input.credentials.kind = "Wep" /\ Len(input.credentials.passphrase) = 7
    /\ result = Err("PreSharedKey")

\* C21: get_connections returns the listed connections in ascending order of the
\* number that ends their path, whatever the order of the listing: paths ending
\* in 42, 7 and 100 come back as 7, 42, 100
SortedByNumber ==
    (op = "get_connections" /\ pc = "done" /\ result = Ok("list")) =>
        /\ Len(collected) = Len(settings)
        /\ Range(collected) = Range(settings)
        /\ \A i, j \in 1..Len(collected) : i < j => collected[i] < collected[j]
        /\ Range(settings) = {42, 7, 100} => collected = <<7, 42, 100>>

SortedByNumberWitness ==
    /\ op = "get_connections" /\ pc = "done" /\ result = Ok("list")
    /\ settings = <<42, 100, 7>> /\ collected = <<7, 42, 100>>

\* C22: a state read that succeeds on an active object whose State is a code the
\* client does not know returns Ok(Unknown)
UnknownCodeRead ==
    /\ pc = "gs_state" /\ pc' # "gs_state"
    /\ lastRead' = ReadOf("State", TRUE)
    /\ astate[found] \notin 0..4

UnknownCodeDecodes == [][UnknownCodeRead => rv' = Ok("Unknown")]_vars

UnknownCodeDecodesWitness ==
    /\ op = "get_state" /\ pc = "done" /\ result = Ok("Unknown")
    /\ lastRead = ReadOf("State", TRUE)
    /\ \E id \in Range(active) : aconn[id] = "self" /\ astate[id] = 99

\* C23: the decoders of DeviceState, DeviceType, NetworkManagerState and
\* Connectivity give a value for every wire code, and the default value Unknown
\* for every code that is not one of the enum's own: the read succeeds
KnownCodes(enum) ==
    CASE enum = "DeviceState" -> {0, 10, 20, 30, 40, 50, 60, 70, 80, 90, 100, 110, 120}
      [] enum = "DeviceType" -> 0..22
      [] enum = "NetworkManagerState" -> {0, 10, 20, 30, 40, 50, 60, 70}
      [] OTHER -> 0..4

Sent == calls = <<"AddAndActivateConnection">>

WepSettings ==
    (op = "connect_to_access_point" /\ input.credentials.kind = "Wep" /\ Sent) =>
        /\ msg.method = "AddAndActivateConnection" => msg.settings = output
        /\ DOMAIN output = {"802-11-wireless", "802-11-wireless-security"}
        /\ DOMAIN output["802-11-wireless-security"] = {"wep-key-type", "wep-key0"}
        /\ output["802-11-wireless-security"]["wep-key-type"] = 2
        /\ output["802-11-wireless-security"]["wep-key0"] = input.credentials.passphrase
        /\ output["802-11-wireless"]["ssid"] = input.access_point.vec

WepSettingsWitness ==
    /\ op = "connect_to_access_point" /\ input.credentials.kind = "Wep" /\ Sent
    /\ pc = "done" /\ result.kind = "Ok"
    /\ input.access_point.vec = <<255>>
    /\ output["802-11-wireless-security"]["wep-key0"] = Fill(64, 97)

\* C25: connect_to_access_point with Enterprise credentials makes the call
\* whatever the password is, and the settings it sends have the block
\* 802-11-wireless-security = {key-mgmt: wpa-eap} and the block 802-1x =
\* {eap: [peap], identity, password, phase2-auth: mschapv2}, with the identity
\* and the password as they were given
EnterpriseSettings ==
    (op = "connect_to_access_point" /\ input.credentials.kind = "Enterprise") =>
        /\ pc # "idle" => Sent
        /\ Sent =>
            /\ msg.method = "AddAndActivateConnection" => msg.settings = output
            /\ DOMAIN output = {"802-11-wireless", "802-11-wireless-security", "802-1x"}
            /\ DOMAIN output["802-11-wireless-security"] = {"key-mgmt"}
            /\ output["802-11-wireless-security"]["key-mgmt"] = "wpa-eap"
            /\ DOMAIN output["802-1x"] = {"eap", "identity", "password", "phase2-auth"}
            /\ output["802-1x"]["eap"] = <<"peap">>
            /\ output["802-1x"]["identity"] = input.credentials.identity
            /\ output["802-1x"]["password"] = input.credentials.passphrase
            /\ output["802-1x"]["phase2-auth"] = "mschapv2"

EnterpriseSettingsWitness ==
    /\ op = "connect_to_access_point" /\ input.credentials.kind = "Enterprise"
    /\ pc = "done" /\ result.kind = "Ok" /\ Sent
    /\ input.credentials.passphrase = Fill(8, 233)
    /\ output["802-1x"]["password"] = Fill(8, 233)

\* C26: the settings sent by create_hotspot have the ipv4 block {method: manual,
\* address-data: [{address, prefix: 24}]} when an address is given and {method:
\* shared} when none is; they have the 802-11-wireless-security block {key-mgmt:
\* wpa-psk, psk} and the key security in the wireless block when a password is
\* given, and neither of the two when none is
HotspotSettings ==
    (op = "create_hotspot" /\ Sent) =>
        /\ msg.method = "AddAndActivateConnection" => msg.settings = output
        /\ input.address # <<>> =>
              /\ DOMAIN output["ipv4"] = {"method", "address-data"}
              /\ output["ipv4"]["method"] = "manual"
              /\ Len(output["ipv4"]["address-data"]) = 1
              /\ DOMAIN output["ipv4"]["address-data"][1] = {"address", "prefix"}
              /\ output["ipv4"]["address-data"][1]["prefix"] = 24
              /\ input.address[1] = <<192, 168, 42, 1>> =>
                    output["ipv4"]["address-data"][1]["address"]
                        = <<49, 57, 50, 46, 49, 54, 56, 46, 52, 50, 46, 49>>
        /\ input.address = <<>> =>
              /\ DOMAIN output["ipv4"] = {"method"}
              /\ output["ipv4"]["method"] = "shared"
        /\ input.password # <<>> =>
              /\ "802-11-wireless-security" \in DOMAIN output
              /\ DOMAIN output["802-11-wireless-security"] = {"key-mgmt", "psk"}
              /\ output["802-11-wireless-security"]["key-mgmt"] = "wpa-psk"
              /\ output["802-11-wireless-security"]["psk"] = input.password[1]
              /\ "security" \in DOMAIN output["802-11-wireless"]
              /\ output["802-11-wireless"]["security"] = "802-11-wireless-security"
        /\ input.password = <<>> =>
              /\ "802-11-wireless-security" \notin DOMAIN output
              /\ "security" \notin DOMAIN output["802-11-wireless"]

HotspotSettingsWitness ==
    /\ op = "create_hotspot" /\ Sent /\ pc = "done" /\ result.kind = "Ok"
    /\ input.address # <<>> /\ input.password = <<>>
    /\ output["ipv4"]["method"] = "manual"

\* C27: a read of a property fails in two ways that the error tells apart. When
\* the service answers with a value that the wanted type cannot take, the error
\* says wrong property type; when the service answers with an error, the error
\* carries the message of the service. Neither returns a value, and both name
\* the interface, the property and the path of the read
Takes(T, kind) ==
    CASE T \in {"i64", "u32", "bool"} -> kind \in {"int", "bool"}
      [] T = "String" -> kind = "str"
      [] OTHER -> kind \in {"array_int", "array_str"}

PropertyFailures ==
    (op = "property" /\ pc = "done") =>
        /\ input.answer.kind = "error" =>
              /\ output.kind = "Err"
              /\ output.val # "wrong property type"
              /\ input.answer.value # <<>> => output.val = input.answer.value[1]
        /\ (input.answer.kind # "error" /\ ~Takes(input.T, input.answer.kind)) =>
              /\ output.kind = "Err"
              /\ output.val = "wrong property type"
        /\ output.kind = "Err" =>
              output.ctx = [interface |-> input.target.interface,
                            property |-> input.target.name,
                            path |-> input.target.path]

PropertyFailuresWitness ==
    /\ op = "property" /\ pc = "done"
    /\ input.T = "i64" /\ input.answer.kind = "str"
    /\ output.kind = "Err" /\ output.val = "wrong property type"

\* C28: a call whose message cannot be built sends nothing, is not retried, does
\* not sleep, and returns an error to its caller
BadMessageLocal ==
    (op = "call" /\ ~msg.valid) =>
        /\ sends = 0 /\ retries = 0 /\ csleeps = 0 /\ lastReply = ""
        /\ pc \in {"idle", "call_send", "top_ret", "done"}
        /\ pc = "done" => result = CallError(msg, "message construction failed")

BadMessageLocalWitness ==
    /\ op = "call" /\ ~msg.valid /\ pc = "done"
    /\ calls = <<"Delete">> /\ sends = 0
    /\ result.kind = "Err"

\* C29: activate and deactivate that observe the state Unknown make no method
\* call, enter no wait, and return the error Unable to get connection state
UnknownIsError ==
    (op \in {"activate", "deactivate"} /\ observed = "Unknown") =>
        /\ calls = <<>> /\ waits = 0 /\ ~inWait
        /\ pc = "done" => result = Err("Unable to get connection state")

UnknownIsErrorWitness ==
    /\ op = "deactivate" /\ observed = "Unknown" /\ pc = "done"
    /\ result = Err("Unable to get connection state")
    /\ lastRead = ReadOf("State", TRUE)

\* C30: when the State property of the matched active object cannot be read,
\* the state read returns Ok(Unknown); get_state can so return Unknown for a
\* connection that no active object backs any more
VanishedRead ==
    /\ pc = "gs_state" /\ pc' # "gs_state"
    /\ lastRead' = ReadOf("State", FALSE)

VanishedReadsUnknown == [][VanishedRead => rv' = Ok("Unknown")]_vars

VanishedReadsUnknownWitness ==
    /\ op = "get_state" /\ pc = "done" /\ result = Ok("Unknown")
    /\ lastRead = ReadOf("State", FALSE)
    /\ FirstMatch(active, aconn) = 0

\* C31: deactivate looks the active path up a second time before it calls: the
\* second lookup starts with no path kept from the first, a call is made only
\* after two reads of ActiveConnections and with the path the second lookup
\* matched, and when the second lookup matches nothing deactivate returns
\* Deactivated with no call and no wait
SecondLookupOver == op = "deactivate" /\ pc = "de_lk_ret"

SecondLookup ==
    /\ [](op = "deactivate" =>
            /\ (pc \in {"lk_list", "lk_scan"} /\ Head(stack) = "de_lk_ret") => found = 0
            /\ calls # <<>> => (lists >= 2 /\ calls = <<"DeactivateConnection">>))
    /\ [][(SecondLookupOver /\ pc' # pc /\ rv = Ok("none")) =>
             (rv' = Ok("Deactivated") /\ pc' = "top_ret" /\ calls' = <<>> /\ waits' = 0)]_vars
    /\ [][(SecondLookupOver /\ calls' # calls) =>
             (rv = Ok("some") /\ found # 0 /\ args' = <<ActivePath(found)>>)]_vars

SecondLookupWitness ==
    /\ op = "deactivate" /\ pc = "done" /\ result = Ok("Deactivated")
    /\ observed = "Activated" /\ lists = 2
    /\ calls = <<>> /\ waits = 0

\* C32: the reverse lookup fails exactly when ActiveConnections cannot be read;
\* otherwise it returns the first active path, in ActiveConnections order, whose
\* Connection property can be read and is this connection's path, and None when
\* there is no such path
Matching == {i \in 1..Len(active) : active[i] \notin input /\ aconn[active[i]] = "self"}

FirstReadableMatch ==
    (op = "get_connection_active_path" /\ pc = "done") =>
        /\ result.kind = "Err" <=> lastRead = ReadOf("ActiveConnections", FALSE)
        /\ result.kind = "Err" <=> lists = 0
        /\ result.kind # "Err" =>
              IF Matching = {}
              THEN result = Ok("none") /\ found = 0
              ELSE /\ result = Ok("some")
                   /\ \E i \in Matching :
                         /\ found = active[i]
                         /\ \A j \in Matching : i <= j

FirstReadableMatchWitness ==
    /\ op = "get_connection_active_path" /\ pc = "done"
    /\ active = <<3, 1, 2>> /\ aconn = [i \in LookupIds |-> "self"] /\ input = {3}
    /\ result = Ok("some") /\ found = 1

\* C33: for every privacy bit, WPA flags and RSN flags, the derived security never
\* holds WEP together with WPA or WPA2
WepExcludesWpa ==
    (op = "security" /\ pc = "done") =>
        ~("WEP" \in output /\ ("WPA" \in output \/ "WPA2" \in output))

WepExcludesWpaWitness ==
    /\ op = "security" /\ pc = "done"
    /\ AP_FLAGS_PRIVACY \in input.flags
    /\ input.wpa_flags = {} /\ input.rsn_flags = {8, AP_SEC_KEY_MGMT_PSK}
    /\ output = {"WPA2"}

\* C34: for every privacy bit, WPA flags and RSN flags, a derived security with
\* ENTERPRISE also holds WPA or WPA2; ENTERPRISE is never alone or only with WEP
EnterpriseNeedsWpa ==
    (op = "security" /\ pc = "done") =>
        /\ "ENTERPRISE" \in output => ("WPA" \in output \/ "WPA2" \in output)
        /\ output # {"ENTERPRISE"}
        /\ output # {"WEP", "ENTERPRISE"}

EnterpriseNeedsWpaWitness ==
    /\ op = "security" /\ pc = "done"
    /\ AP_FLAGS_PRIVACY \in input.flags
    /\ input.wpa_flags = {} /\ input.rsn_flags = {AP_SEC_KEY_MGMT_802_1X}
    /\ output = {"WPA2", "ENTERPRISE"}

\* the strengths of the access points returned
Strengths == [i \in 1..Len(collected) |-> collected[i].strength]

ScanReturned == op = "get_access_points" /\ pc = "done" /\ result = Ok("list")

\* C35: get_access_points returns the access points in non-increasing order of
\* strength, whatever the order the device lists them in
StrongestFirst ==
    ScanReturned =>
        \A i, j \in 1..Len(collected) : i < j => Strengths[i] >= Strengths[j]

StrongestFirstWitness ==
    /\ ScanReturned
    /\ Len(aps) = 2 /\ aps[1].strength = 20 /\ aps[2].strength = 60
    /\ Strengths = <<60, 20>>

\* the listed access points whose Ssid can be read and is at most 32 bytes long
Candidates ==
    {n \in 1..Len(aps) : n \notin input.ssid /\ Len(aps[n].ssid) <= SSID_MAX_LEN}

\* a flags word of the access point has a bit that its type does not define
UndefinedBit(n) ==
    \/ ~(aps[n].flags \subseteq {1, 2, 4, 8})
    \/ ~(aps[n].wpa_flags \subseteq {1, 2, 4, 8, 16, 32, 64, 128, 256, 512})
    \/ ~(aps[n].rsn_flags \subseteq {1, 2, 4, 8, 16, 32, 64, 128, 256, 512})

ScanOver == op = "get_access_points" /\ pc = "done"

\* C36: get_access_points leaves out, without failing, every access point whose
\* Ssid cannot be read or is longer than 32 bytes; its result holds exactly the
\* other listed access points; it fails when the list cannot be read or when
\* the Strength or a flags word of one of those cannot be read or decoded
OmitsUnreadableSsid ==
    ScanOver =>
        /\ result.kind = "Err" <=>
              \/ input.failing = "AccessPoints"
              \/ /\ Candidates # {}
                 /\ \/ input.failing \in {"Strength", "Flags", "WpaFlags", "RsnFlags"}
                    \/ \E n \in Candidates : UndefinedBit(n)
        /\ result.kind # "Err" =>
              /\ result = Ok("list")
              /\ {collected[i].path : i \in 1..Len(collected)} = Candidates
              /\ Len(collected) = Cardinality(Candidates)
              /\ \A i \in 1..Len(collected) :
                    /\ collected[i].ssid.vec = aps[collected[i].path].ssid
                    /\ collected[i].strength = aps[collected[i].path].strength

OmitsUnreadableSsidWitness ==
    /\ ScanReturned
    /\ Len(aps) = 2 /\ input.ssid = {1}
    /\ Len(aps[1].ssid) <= SSID_MAX_LEN /\ Len(aps[2].ssid) <= SSID_MAX_LEN
    /\ Len(collected) = 1 /\ collected[1].path = 2

\* C38: a Flags, WpaFlags or RsnFlags value with a bit outside the defined ones
\* makes get_access_points fail, with "wrong property type" when the reads are
\* answered; the bit is not dropped and the access point is not left out
UndefinedBitFailsScan ==
    ScanOver =>
        /\ \A n \in Candidates : UndefinedBit(n) => result.kind = "Err"
        /\ (input.failing = "none" /\ \E n \in Candidates : UndefinedBit(n))
              => result = Err(WRONG_TYPE)
        /\ result = Err(WRONG_TYPE) =>
              /\ idx \in Candidates /\ UndefinedBit(idx)
              /\ \A i \in 1..Len(collected) : collected[i].path # idx

UndefinedBitFailsScanWitness ==
    /\ ScanOver /\ result = Err(WRONG_TYPE)
    /\ input = [ssid |-> {}, failing |-> "none"]
    /\ Len(aps) = 2 /\ ~UndefinedBit(1) /\ 2048 \in aps[2].rsn_flags
    /\ Len(collected) = 1

\* is_wireless_enabled and is_networking_enabled: property::<bool> of the service
\* object was read and the service answered with a boolean
EnabledRead ==
    /\ op = "property" /\ pc = "done"
    /\ input.T = "bool"
    /\ input.target.name \in {"WirelessEnabled", "NetworkingEnabled"}
    /\ input.answer.kind = "bool"

\* C37 as stated: the boolean decoder gives true exactly for a non-zero wire
\* value, so is_wireless_enabled and is_networking_enabled give the value of the
\* remote property
BoolDecodesNonZero ==
    EnabledRead => output = Ok(input.answer.value)

\* the handler was entered with timeout > 0 and the call is over
HandlerOver ==
    /\ op \in {"start_service", "stop_service"} /\ pc = "done"
    /\ input.timeout > 0 /\ output.atMatch # ""

\* C39 as stated: a unit that is in the target state when the subscription is
\* established makes the handler return the target state
SubscribedAtTargetReturnsTarget ==
    (HandlerOver /\ output.atMatch = TargetState) => output.result = Ok(TargetState)

\* C39: no wake-up is lost. The worker reads the state after it has subscribed;
\* when that read succeeds with the target state the worker is over with the
\* target state and has taken no signal, and the handler returns it unless the
\* timer fired first; and while the worker waits for a signal with the unit in
\* the target state, a signal with the target state is in its queue
NoLostWakeUp ==
    op \in {"start_service", "stop_service"} =>
        /\ (pc = "h_iter" /\ output.unit = TargetState) =>
              \E i \in 1..Len(output.queue) : output.queue[i] = TargetState
        /\ (pc \in {"h_select", "done"} /\ input.timeout > 0
              /\ output.atRead = Ok(TargetState)) =>
              /\ output.taken = 0
              /\ output.worker = Ok(TargetState)
              /\ pc = "done" =>
                    \/ output.result = Ok(TargetState)
                    \/ output.result = Err("TimedOut") /\ output.fired

\* the unit went to the target state between the request and the subscription
NoLostWakeUpWitness ==
    /\ op = "start_service" /\ pc = "done"
    /\ input = [timeout |-> 5, unit |-> "inactive"]
    /\ output.changes = 1 /\ output.atMatch = "active" /\ output.queue = <<>>
    /\ output.atRead = Ok("active")
    /\ output.result = Ok("active") /\ output.taken = 0

====
